---- MODULE Spec2Model ----
(***************************************************************************)
(* Per-note synchronization and persistence engine of macStickyNotes:      *)
(* the Editor component (content codec, debounced save scheduler,          *)
(* external-update reconciler) and the StickyNote window bridge that       *)
(* drives it.                                                              *)
(*                                                                         *)
(* Time is counted in milliseconds.  Handlers run to completion (one       *)
(* event-loop task each) and take no time; a browser timer fires in the    *)
(* instant it becomes due, but any other event may be delivered in that    *)
(* instant before it.                                                      *)
(*                                                                         *)
(* A string is a sequence of lexemes: a text character, or one structural  *)
(* piece of the JSON text that JSON.stringify writes for a delta.          *)
(***************************************************************************)
EXTENDS Integers, Sequences, FiniteSets, TLC

\* ------------------------------------------------------------------ bounds
TimeStep == 150       \* largest amount of time that passes in one step
MaxInflight == 2      \* gateway invocations that may be pending at once
MaxBurst == 2         \* the burst counter saturates here
ZoomWindow == 1       \* zoom in/out events are delivered within 1.0 +- this many tenths
StrLen == 2           \* longest arbitrary string handed to the codec, in lexemes
DocSize == 3          \* largest encoded document handed to the codec, in atoms
MaxGrows == 2         \* runs of growWindowToFitEditorContent that may wait at once
MaxHeight == 6        \* tallest window whose content still outgrows it, in
                      \* physical pixels
MoveStep == 50        \* largest amount of time that passes in one step while
                      \* the window is moved
MaxFits == 2          \* runs of the fit_text listener that may wait at once
MaxMoveTimers == 2    \* timers of save_debounce that may be armed at once
MaxFocus == 2         \* runs of the focus listener that may wait at once
MaxIssued == 3        \* list_saved_notes requests the notes manager issues
MaxStarted == 2       \* calls of runNoteAction in the notes manager

\* ------------------------------------------------------- program constants
SaveDelay == 300
MoveDelay == 100
RESIZE_THRESHOLD_PX == 2

\* ------------------------------------------------------------------ strings
SP == " "
NL == "\n"
OPS_OPEN == "{\"ops\":["
OPS_CLOSE == "]}"
INSERT_OPEN == "{\"insert\":"
OBJ_CLOSE == "}"
QUOTE == "\""
COMMA == ","
ESC_NL == "\\n"
IMAGE == "{\"image\":\"x\"}"
TRUE_LIT == "true"
\* what JSON.stringify writes, inside a string literal, for a lexeme that
\* holds a quote or a backslash
ESC_QUOTE == "\\\""
ESC_ESC_NL == "\\\\n"
ESC_OPS_OPEN == "{\\\"ops\\\":["
ESC_INSERT_OPEN == "{\\\"insert\\\":"
ESC_IMAGE == "{\\\"image\\\":\\\"x\\\"}"

Whitespace == {SP, NL}
Digits == {"1"}
TextChars == {"a", "1", SP, NL}

Min(a, b) == IF a < b THEN a ELSE b

RECURSIVE TrimStart(_)
TrimStart(s) ==
  IF s # <<>> /\ Head(s) \in Whitespace THEN TrimStart(Tail(s)) ELSE s

RECURSIVE TrimEnd(_)
TrimEnd(s) ==
  IF s # <<>> /\ s[Len(s)] \in Whitespace
    THEN TrimEnd(SubSeq(s, 1, Len(s) - 1)) ELSE s

\* String.prototype.trim
Trim(s) == TrimEnd(TrimStart(s))

\* insert.replace(/\n/g, "")
RECURSIVE StripNewlines(_)
StripNewlines(s) ==
  IF s = <<>> THEN <<>>
  ELSE IF Head(s) = NL THEN StripNewlines(Tail(s))
  ELSE <<Head(s)>> \o StripNewlines(Tail(s))

\* ---------------------------------------------------------------- documents
\* An op of a delta: a text insert or an embedded-object insert.
TextOp(t) == [kind |-> "text", text |-> t]
EmbedOp == [kind |-> "embed", text |-> <<>>]

BlankDoc == <<TextOp(<<NL>>)>>

\* variant: the newline is written raw
EscapeString_raw(t) == t

\* the lexemes JSON.stringify rewrites inside a string literal, with what
\* it writes for each
Escapes ==
  { <<NL, ESC_NL>>, <<QUOTE, ESC_QUOTE>>, <<ESC_NL, ESC_ESC_NL>>,
    <<OPS_OPEN, ESC_OPS_OPEN>>, <<INSERT_OPEN, ESC_INSERT_OPEN>>,
    <<IMAGE, ESC_IMAGE>> }

EscapeLexeme(x) ==
  IF \E e \in Escapes : e[1] = x
    THEN (CHOOSE e \in Escapes : e[1] = x)[2]
    ELSE x

\* JSON.stringify of a string: newline, quote and backslash are written as
\* escapes.
RECURSIVE EscapeString(_)
EscapeString(t) ==
  IF t = <<>> THEN <<>>
  ELSE <<EscapeLexeme(Head(t))>> \o EscapeString(Tail(t))

StringifyOp(o) ==
  IF o.kind = "text"
    THEN <<INSERT_OPEN, QUOTE>> \o EscapeString(o.text) \o <<QUOTE, OBJ_CLOSE>>
    ELSE <<INSERT_OPEN, IMAGE, OBJ_CLOSE>>

RECURSIVE StringifyOps(_)
StringifyOps(ops) ==
  IF ops = <<>> THEN <<>>
  ELSE IF Len(ops) = 1 THEN StringifyOp(ops[1])
  ELSE StringifyOp(ops[1]) \o <<COMMA>> \o StringifyOps(Tail(ops))

\* JSON.stringify(delta) for a delta {ops: [...]}
JSONStringify(ops) == <<OPS_OPEN>> \o StringifyOps(ops) \o <<OPS_CLOSE>>

\* ----------------------------------------------------------------- JSON.parse
\* The values JSON.parse yields on the strings of this model:
\*   t = "fail"     a SyntaxError was thrown
\*   t = "number"   a non-zero number
\*   t = "true"     the boolean true
\*   t = "string"   a string, its characters in text
\*   t = "object"   an object with neither an ops nor an insert member
\*   t = "insert"   an object {insert: v}; kind tells what v is
\*   t = "delta"    an object {ops: [...]}, its elements in ops
Value(t, kind, text, ops) == [t |-> t, kind |-> kind, text |-> text, ops |-> ops]
Fail == Value("fail", "", <<>>, <<>>)
NumberValue == Value("number", "", <<>>, <<>>)
TrueValue == Value("true", "", <<>>, <<>>)
StringValue(text) == Value("string", "", text, <<>>)
ObjectValue == Value("object", "", <<>>, <<>>)
DeltaValue(o) == Value("delta", "", <<>>, o)

\* An element of an ops array as the program sees it: op.insert is a string
\* (text), a non-null object (embed), or anything else including undefined
\* (other).  The text of an embed names the object's first key where that is
\* no format of the editor: the lexeme that opens {"insert": or {"ops":[;
\* it is empty for an image.
OtherOp == [kind |-> "other", text |-> <<>>]

InsertValue(v) ==
  Value("insert",
        IF v.t = "string" THEN "text"
        ELSE IF v.t \in {"object", "insert", "delta"} THEN "embed"
        ELSE "other",
        IF v.t = "string" THEN v.text
        ELSE IF v.t = "insert" THEN <<INSERT_OPEN>>
        ELSE IF v.t = "delta" THEN <<OPS_OPEN>>
        ELSE <<>>,
        <<>>)

OpOf(v) ==
  IF v.t = "insert" /\ v.kind = "text" THEN TextOp(v.text)
  ELSE IF v.t = "insert" /\ v.kind = "embed" THEN [EmbedOp EXCEPT !.text = v.text]
  ELSE OtherOp

\* Index of the first QUOTE of s at or after position i, 0 when there is none.
RECURSIVE FindQuote(_, _)
FindQuote(s, i) ==
  IF i > Len(s) THEN 0
  ELSE IF s[i] = QUOTE THEN i
  ELSE FindQuote(s, i + 1)

\* The characters between the quotes of a JSON string literal, unescaped;
\* a raw newline, or a lexeme with a quote or a lone backslash in it, is a
\* syntax error inside the literal.
RECURSIVE UnescapeString(_)
UnescapeString(t) ==
  IF t = <<>> THEN [ok |-> TRUE, text |-> <<>>]
  ELSE LET rest == UnescapeString(Tail(t))
           c == Head(t)
       IN IF ~rest.ok THEN rest
          ELSE IF \E e \in Escapes : e[2] = c
            THEN [ok |-> TRUE,
                  text |-> <<(CHOOSE e \in Escapes : e[2] = c)[1]>> \o rest.text]
          ELSE IF \E e \in Escapes : e[1] = c THEN [ok |-> FALSE, text |-> <<>>]
          ELSE [ok |-> TRUE, text |-> <<c>> \o rest.text]

\* s without its leading digits
RECURSIVE SkipDigits(_)
SkipDigits(s) ==
  IF s # <<>> /\ Head(s) \in Digits THEN SkipDigits(Tail(s)) ELSE s

Parsed(v, rest) == [ok |-> TRUE, v |-> v, rest |-> rest]
NotParsed == [ok |-> FALSE, v |-> Fail, rest |-> <<>>]

\* ParseValue reads one JSON value from the front of s; ParseOps reads the
\* elements of an ops array up to its closing lexeme (first is TRUE when no
\* element has been read yet) and yields the delta.
RECURSIVE ParseValue(_)
RECURSIVE ParseOps(_, _)
ParseValue(s) ==
  LET s1 == TrimStart(s)
  IN IF s1 = <<>> THEN NotParsed
     ELSE IF Head(s1) \in Digits THEN Parsed(NumberValue, SkipDigits(s1))
     ELSE IF Head(s1) = TRUE_LIT THEN Parsed(TrueValue, Tail(s1))
     ELSE IF Head(s1) = IMAGE THEN Parsed(ObjectValue, Tail(s1))
     ELSE IF Head(s1) = QUOTE THEN
       LET q == FindQuote(s1, 2)
       IN IF q = 0 THEN NotParsed
          ELSE LET str == UnescapeString(SubSeq(s1, 2, q - 1))
               IN IF str.ok
                    THEN Parsed(StringValue(str.text), SubSeq(s1, q + 1, Len(s1)))
                    ELSE NotParsed
     ELSE IF Head(s1) = INSERT_OPEN THEN
       LET inner == ParseValue(Tail(s1))
           s2 == TrimStart(inner.rest)
       IN IF ~inner.ok \/ s2 = <<>> \/ Head(s2) # OBJ_CLOSE THEN NotParsed
          ELSE Parsed(InsertValue(inner.v), Tail(s2))
     ELSE IF Head(s1) = OPS_OPEN THEN ParseOps(Tail(s1), TRUE)
     ELSE NotParsed

ParseOps(s, first) ==
  LET s1 == TrimStart(s)
  IN IF s1 = <<>> THEN NotParsed
     ELSE IF Head(s1) = OPS_CLOSE THEN Parsed(DeltaValue(<<>>), Tail(s1))
     ELSE
       LET s2 == IF first THEN s1
                 ELSE IF Head(s1) = COMMA THEN Tail(s1) ELSE <<>>
           el == ParseValue(s2)
           s3 == TrimStart(el.rest)
       IN IF ~el.ok \/ s3 = <<>> THEN NotParsed
          ELSE IF Head(s3) = OPS_CLOSE
            THEN Parsed(DeltaValue(<<OpOf(el.v)>>), Tail(s3))
          ELSE IF Head(s3) # COMMA THEN NotParsed
          ELSE LET rest == ParseOps(s3, FALSE)
               IN IF rest.ok
                    THEN Parsed(DeltaValue(<<OpOf(el.v)>> \o rest.v.ops), rest.rest)
                    ELSE NotParsed

\* JSON.parse(contents), a thrown SyntaxError reported as Fail
JSONParse(contents) ==
  LET r == ParseValue(contents)
  IN IF r.ok /\ TrimStart(r.rest) = <<>> THEN r.v ELSE Fail

\* variant: every string is reported as not a document
parseDelta_alwaysNull(contents) == Fail

\* parseDelta: the parsed value, or null (Fail) when JSON.parse throws
parseDelta(contents) == JSONParse(contents)

\* JavaScript truthiness of a parseDelta result: null (Fail) and the empty
\* string are falsy
Truthy(v) == v.t # "fail" /\ ~(v.t = "string" /\ v.text = <<>>)

\* variant: the blank check is left out
isMeaningfulSerializedContents_noBlankCheck(contents) ==
  LET delta == parseDelta(contents)
  IN IF ~Truthy(delta) \/ delta.t # "delta" THEN TRUE
     ELSE IF delta.ops = <<>> THEN FALSE
     ELSE \E i \in 1..Len(delta.ops) :
            \/ /\ delta.ops[i].kind = "text"
               /\ Trim(StripNewlines(delta.ops[i].text)) # <<>>
            \/ delta.ops[i].kind = "embed"

\* isMeaningfulSerializedContents
isMeaningfulSerializedContents(contents) ==
  IF Trim(contents) = <<>> THEN FALSE
  ELSE LET delta == parseDelta(contents)
       IN IF ~Truthy(delta) \/ delta.t # "delta" THEN TRUE
          ELSE IF delta.ops = <<>> THEN FALSE
          ELSE \E i \in 1..Len(delta.ops) :
                 \/ /\ delta.ops[i].kind = "text"
                    /\ Trim(StripNewlines(delta.ops[i].text)) # <<>>
                 \/ delta.ops[i].kind = "embed"

\* ------------------------------------------------------------ Quill editor
\* Delta normal form: adjacent text inserts are merged, empty ones dropped.
RECURSIVE Compact(_)
Compact(ops) ==
  IF ops = <<>> THEN <<>>
  ELSE LET rest == Compact(Tail(ops))
           o == Head(ops)
       IN IF o.kind = "text" /\ o.text = <<>> THEN rest
          ELSE IF o.kind = "text" /\ rest # <<>> /\ Head(rest).kind = "text"
            THEN <<TextOp(o.text \o Head(rest).text)>> \o Tail(rest)
          ELSE <<o>> \o rest

\* A Quill document always ends with a newline.
EndWithNewline(ops) ==
  IF ops # <<>> /\ ops[Len(ops)].kind = "text"
       /\ ops[Len(ops)].text[Len(ops[Len(ops)].text)] = NL
    THEN ops
    ELSE Compact(ops \o <<TextOp(<<NL>>)>>)

\* quill.setContents(value): new Delta(value) takes the ops array of the
\* value and is empty when the value has none.
setContents(value) ==
  EndWithNewline(Compact(IF value.t = "delta" THEN value.ops ELSE <<>>))

\* quill.setContents(value) throws where the value has an embed that is no
\* format of the editor ("Unable to create ... blot"); the editor has
\* emptied its document by then, and no text-change is emitted.
Raises(value) ==
  /\ value.t = "delta"
  /\ \E i \in 1..Len(value.ops) : value.ops[i].kind = "embed" /\ value.ops[i].text # <<>>

\* quill.setText(text)
setText(text) == EndWithNewline(Compact(<<TextOp(text)>>))

\* quill.getText(): the text inserts concatenated, embeds left out
RECURSIVE getText(_)
getText(ops) ==
  IF ops = <<>> THEN <<>>
  ELSE (IF Head(ops).kind = "text" THEN Head(ops).text ELSE <<>>)
         \o getText(Tail(ops))

\* ------------------------------------------------------------ zoom factors
\* A zoom factor is a binary64 number.  It is written here as the integer
\* n for which n * 10^-17 is the shortest decimal that denotes the number
\* (what String(x) prints and parseFloat reads back), with twelve zeros
\* taken out of the middle: Tenth * t + e stands for t/10 + e * 10^-17.
\* So 100000 is 1.0, 110000 is 1.1 and 120020 is 1.2000000000000002.
Tenth == 10000
One == 10 * Tenth

\* x + 0.1 in binary64 is the decimal sum plus the second component, for
\* the x listed; for the other factors a window takes it is the decimal sum.
AddRounding ==
  {
    <<20000, 4>>, <<30004, -4>>, <<70000, -10>>, <<70010, -10>>,
    <<79930, -10>>, <<89840, -10>>, <<109830, 10>>, <<109920, 10>>,
    <<109990, 10>>, <<110000, 20>>, <<119840, 10>>, <<119930, 10>>,
    <<120020, 10>>, <<129850, 10>>, <<129940, 10>>, <<130000, 10>>,
    <<130030, 10>>, <<139860, 10>>, <<139950, 10>>, <<140010, 10>>,
    <<149870, 10>>, <<150020, 10>>, <<150040, 10>>, <<159960, 10>>,
    <<160030, 10>>, <<160050, 10>>, <<169880, 20>>, <<169970, 10>>,
    <<170040, 10>>, <<170060, 10>>, <<179980, 20>>, <<180050, 10>>,
    <<180070, 10>>, <<189900, 10>>, <<190060, -20>>, <<190080, 20>>,
    <<199910, -10>>, <<209900, 30>>, <<219930, 10>>, <<229940, 10>>,
    <<239950, 10>>, <<259960, 10>>, <<269970, 30>> }

\* likewise for x - 0.1
SubRounding ==
  {
    <<40000, 4>>, <<50010, 3>>, <<59840, 5>>, <<59930, 3>>,
    <<79990, 10>>, <<80000, 10>>, <<89920, 10>>, <<99830, 10>>,
    <<119840, -10>>, <<119930, -10>>, <<120000, -10>>, <<120020, -20>>,
    <<129850, -10>>, <<129940, -10>>, <<130030, -10>>, <<139860, -10>>,
    <<139950, -10>>, <<140010, -10>>, <<140040, -10>>, <<149870, -10>>,
    <<149960, -10>>, <<150020, -10>>, <<159880, -10>>, <<160030, -10>>,
    <<160050, -10>>, <<169970, -10>>, <<170040, -10>>, <<170060, -10>>,
    <<179900, -20>>, <<179980, -10>>, <<180050, -10>>, <<180070, -10>>,
    <<190000, -20>>, <<190060, -10>>, <<190080, -10>>, <<199910, -10>>,
    <<209900, 10>>, <<219930, -30>>, <<229940, -10>>, <<239950, -10>>,
    <<249960, -10>>, <<269970, -10>>, <<280000, -30>> }

Rounding(table, x) ==
  IF \E p \in table : p[1] = x THEN (CHOOSE p \in table : p[1] = x)[2] ELSE 0

\* current + 0.1 and current - 0.1 as JavaScript computes them
AddTenth(x) == x + Tenth + Rounding(AddRounding, x)
SubTenth(x) == x - Tenth + Rounding(SubRounding, x)

\* the tenth nearest to a zoom factor
NearestTenth(x) == (x + Tenth \div 2) \div Tenth

\* ------------------------------------------------------------------- inputs
DocA == <<TextOp(<<"a", NL>>)>>
DocImage == <<EmbedOp, TextOp(<<NL>>)>>

\* documents a local edit can leave in the editor
EditDocs == {BlankDoc, DocA, DocImage}

\* serialized contents delivered by the backend (startup payload, external
\* update): empty, blank, legacy plain text, an encoded blank document, an
\* encoded document
Contents == { <<>>, <<SP>>, <<"a">>, JSONStringify(BlankDoc), JSONStringify(DocA) }

\* a document whose text is whitespace only
DocSpace == <<TextOp(<<SP, NL>>)>>

\* the lexemes an arbitrary string is made of
Alphabet ==
  TextChars \cup {QUOTE, COMMA, OPS_OPEN, OPS_CLOSE, INSERT_OPEN, OBJ_CLOSE,
                  ESC_NL, IMAGE, TRUE_LIT}

SeqsUpTo(S, n) == UNION {[1..k -> S] : k \in 0..n}

\* An encoded document is written down as a sequence of atoms: a character
\* of a text insert, an embed, or the boundary between two inserts.
BOUNDARY == "|"
EMBED == "E"
DocChars == {"a", SP, NL, QUOTE}
DocAtoms == DocChars \cup {BOUNDARY, EMBED}

\* the ops the atoms a spell, acc being the text insert under construction
RECURSIVE OpsOf(_, _)
OpsOf(a, acc) ==
  IF a = <<>> THEN <<TextOp(acc)>>
  ELSE IF Head(a) = BOUNDARY THEN <<TextOp(acc)>> \o OpsOf(Tail(a), <<>>)
  ELSE IF Head(a) = EMBED
    THEN (IF acc = <<>> THEN <<>> ELSE <<TextOp(acc)>>) \o <<EmbedOp>>
           \o (IF Tail(a) = <<>> THEN <<>> ELSE OpsOf(Tail(a), <<>>))
  ELSE OpsOf(Tail(a), acc \o <<Head(a)>>)

\* the strings handed to the codec: arbitrary short ones, and the encodings
\* of deltas (in normal form or not)
CodecStrings ==
  SeqsUpTo(Alphabet, StrLen)
    \cup {JSONStringify(OpsOf(a, <<>>)) : a \in SeqsUpTo(DocAtoms, DocSize)}
    \cup {<<OPS_OPEN, OPS_CLOSE>>}

\* documents found in the editor when a string arrives
CodecDocs == EditDocs \cup {DocSpace}

\* the palette (fallbackColors), shortened
Palette == <<"c1", "c2">>
DefaultColor == Palette[1]

Absent == [present |-> FALSE, id |-> "", contents |-> <<>>, color |-> "", zoom |-> 0]

\* window.__STICKY_INIT__: absent, or {id, contents, color, zoom}
InitPayloads ==
  {Absent} \cup
  {[present |-> TRUE, id |-> "n1", contents |-> c, color |-> v.color, zoom |-> v.zoom] :
     c \in Contents, v \in {[color |-> "", zoom |-> One],
                            [color |-> "c2", zoom |-> 11 * Tenth]}}

\* payloads of external_note_update {contents, color, zoom}, kept in the
\* shape of the startup payload; color "" and zoom 0 are falsy
ExternalPayloads ==
  {[present |-> TRUE, id |-> "", contents |-> c, color |-> "", zoom |-> 0] :
     c \in Contents} \cup
  {[present |-> TRUE, id |-> "", contents |-> JSONStringify(DocA), color |-> "c2",
    zoom |-> 11 * Tenth]}

\* ------------------------------------------------------------------- state
VARIABLES
  quill,                  \* the editor is constructed (quill is defined)
  doc,                    \* the editor's document
  selection,              \* the editor has a selection
  noteId,                 \* "" until bound
  saveTimeout,            \* handle of the save timer, 0 for null
  applyingExternalUpdate, \* echo suppression flag
  bgColor,                \* note-container style.backgroundColor, "" unset
  zoom,                   \* note-container style.zoom, 0 unset
  colorMenuOpen,
  titlebarHovered,
  focused,                \* body carries the class "focused"
  timers,                 \* the browser's armed timers: [id, kind, left]
  inflight,               \* gateway invocations dispatched and not settled
  moveTimer,              \* StickyNote's handle of the move timer, 0 for undefined
  editorBox,              \* scrollHeight and clientHeight of the .ql-editor element
  appWindow,              \* the window: inner width and height in physical
                          \* pixels, and the scale factor of its display
  grows,                  \* the runs of growWindowToFitEditorContent that await
                          \* the window, oldest first
  minHeight,              \* style.minHeight of the editor element
  fits,                   \* the runs of the fit_text listener that await the
                          \* window or an animation frame, oldest first
  track,                  \* history kept for the lost-edit property: whether the
                          \* last change of the document was "local" or
                          \* "external" ("none" before any), and the contents of
                          \* the last invocation dispatched, if there was one
  focusing,               \* the runs of the tauri://focus listener that await
                          \* bring_all_to_front, and, as history, the last of
                          \* the signals focus and blur ("none" before any)
  manager,                \* the notes manager window: its state (notes, as
                          \* the number of the list_saved_notes request whose
                          \* response is displayed, 0 for the empty list;
                          \* loading; error as "is not empty"; busyNoteId),
                          \* the list requests in flight, the calls of
                          \* runNoteAction in flight, the counts of both, and,
                          \* as history, the newest request that was fulfilled
  closeRun,               \* the call of closeNote: "idle" when there is none,
                          \* "saving" while it awaits the gateway invocation of
                          \* its forced save, "closing" once it has invoked
                          \* close_window, "rejected" when it ended in a rejection
  \* history
  op,                     \* the event handled by the last step
  arg,                    \* the payload that event carried
  sent,                   \* gateway invocations dispatched by the last step
  last,                   \* the gateway invocation dispatched by the last step
  sinceReq,               \* time since the last non-forced save_contents call
  burst,                  \* non-forced calls up to the last step since the
                          \* forced-save event or timer expiry before it
  owed,                   \* a non-forced call with a passing guard awaits its dispatch
  after,                  \* what has been delivered since the last local edit or mount
  editCalls,              \* invocations dispatched since the last local edit or mount,
                          \* counted while after is not "other"
  winCall,                \* the call to the window made by the last step
  sinceMove,              \* time since the last move or resize signal
  moves                   \* the burst of move and resize signals: how many it
                          \* counts, and whether the move timer has fired since

vars == <<quill, doc, selection, noteId, saveTimeout, applyingExternalUpdate,
          bgColor, zoom, colorMenuOpen, titlebarHovered, focused, timers,
          inflight, moveTimer, editorBox, appWindow, grows, minHeight, fits,
          track, focusing, manager, closeRun, op, arg,
          sent,
          last, sinceReq, burst, owed, after, editCalls, winCall, sinceMove,
          moves>>

Past == SaveDelay + TimeStep    \* sinceReq saturates here
MovePast == MoveDelay + MoveStep    \* sinceMove saturates here

NoTrack == [mutation |-> "none", dispatched |-> FALSE, contents |-> <<>>]

\* values of the editor's style.minHeight: the one of the stylesheet, which
\* the listener writes back, and the relaxed one
FixedMinHeight == "calc(100vh - 8px)"
FitContent == "fit-content"

\* no call to the window; lengths of a call are logical, in half pixels
NoWinCall == [kind |-> "none", width |-> 0, height |-> 0, overflow |-> 0]

NoCall == [noteId |-> "", contents |-> <<>>, color |-> "", zoom |-> 0,
           via |-> "none", sel |-> FALSE]

\* The program state a handler works on, with the log of what the handler
\* has done so far: gateway invocations dispatched (sent) and save_contents
\* calls received (reqN non-forced, reqF forced); dt is the time that passes.
NoManager ==
  [mounted |-> FALSE, notes |-> 0, loading |-> FALSE, error |-> FALSE,
   busyNoteId |-> "", issued |-> 0, lists |-> {}, started |-> 0, runs |-> {},
   newest |-> 0]

Cur ==
  [quill |-> quill, doc |-> doc, selection |-> selection, noteId |-> noteId,
   saveTimeout |-> saveTimeout, applyingExternalUpdate |-> applyingExternalUpdate,
   bgColor |-> bgColor, zoom |-> zoom, colorMenuOpen |-> colorMenuOpen,
   titlebarHovered |-> titlebarHovered, focused |-> focused,
   timers |-> timers, inflight |-> inflight, moveTimer |-> moveTimer,
   editorBox |-> editorBox, appWindow |-> appWindow, grows |-> grows,
   minHeight |-> minHeight, fits |-> fits, track |-> track, focusing |-> focusing, manager |-> manager,
   closeRun |-> closeRun,
   last |-> NoCall, winCall |-> NoWinCall,
   sent |-> 0, reqN |-> 0, reqF |-> 0, dt |-> 0]

\* ------------------------------------------------------------ browser timers
TimerIds(tbl) == {t.id : t \in tbl}

\* setTimeout returns a handle that no armed timer and no kept handle uses;
\* handles are positive.
FreshId(S) ==
  LET used == TimerIds(S.timers) \cup {S.saveTimeout, S.moveTimer}
  IN CHOOSE i \in 1..(Cardinality(S.timers) + 3) :
       /\ i \notin used
       /\ \A j \in 1..(i - 1) : j \in used

setTimeout(tbl, id, kind, delay) ==
  tbl \cup {[id |-> id, kind |-> kind, left |-> delay]}

\* variant: the timer is left armed
clearTimeout_noop(tbl, id) == tbl

clearTimeout(tbl, id) == {t \in tbl : t.id # id}

\* ------------------------------------------------------------------- Editor
defaultNoteColor == DefaultColor

getNoteColor(S) == IF S.bgColor # "" THEN S.bgColor ELSE defaultNoteColor

getZoomLevel(S) == IF S.zoom # 0 THEN S.zoom ELSE One

\* variant: a visually empty document is encoded like any other
serializeContents_noBlankCheck(S) ==
  IF ~S.quill THEN <<>> ELSE JSONStringify(S.doc)

serializeContents(S) ==
  IF ~S.quill THEN <<>>
  ELSE LET hasEmbed == \E i \in 1..Len(S.doc) : S.doc[i].kind = "embed"
       IN IF ~hasEmbed /\ Trim(getText(S.doc)) = <<>> THEN <<>>
          ELSE JSONStringify(S.doc)

\* invoke("save_contents", ...): the invocation is dispatched and pending
invokeSave(S, via) ==
  [S EXCEPT !.inflight = @ + 1,
            !.sent = @ + 1,
            !.last = [noteId |-> S.noteId,
                      contents |-> serializeContents(S),
                      color |-> getNoteColor(S),
                      zoom |-> getZoomLevel(S),
                      via |-> via,
                      sel |-> S.selection]]

\* variant: no invocation is dispatched while another is pending
persistContents_oneAtATime(S, via) ==
  IF ~S.quill \/ S.noteId = "" \/ S.inflight > 0 THEN S ELSE invokeSave(S, via)

\* variant: the note id is not checked
persistContents_noIdGuard(S, via) ==
  IF ~S.quill THEN S ELSE invokeSave(S, via)

persistContents(S, via) ==
  IF ~S.quill \/ S.noteId = "" THEN S ELSE invokeSave(S, via)

\* variant: a rejected invocation is dispatched again
invocationSettled_retry(S, ok) ==
  LET S1 == [S EXCEPT !.inflight = @ - 1]
  IN IF ok THEN S1 ELSE persistContents(S1, "timer")

\* the gateway settles an invocation whose promise nobody handles (void
\* persistContents() in the timer callback, the unawaited save_contents(true)
\* of the listeners): neither outcome runs any code of the window
invocationSettled(S, ok) == [S EXCEPT !.inflight = @ - 1]

\* save_contents, the part before the branch on force
cancelSaveTimer(S) ==
  IF S.saveTimeout # 0
    THEN [S EXCEPT !.timers = clearTimeout(S.timers, S.saveTimeout),
                   !.saveTimeout = 0]
    ELSE S

armSaveTimer(S) ==
  LET id == FreshId(S)
  IN [S EXCEPT !.timers = setTimeout(S.timers, id, "save", SaveDelay),
               !.saveTimeout = id]

\* variant: a forced call leaves the armed timer alone
save_contents_forceKeepsTimer(S, force) ==
  LET S0 == IF force THEN [S EXCEPT !.reqF = @ + 1] ELSE [S EXCEPT !.reqN = @ + 1]
  IN IF force THEN persistContents(S0, "forced") ELSE armSaveTimer(cancelSaveTimer(S0))

\* variant: the force argument is ignored
save_contents_neverForced(S, force) ==
  armSaveTimer(cancelSaveTimer([S EXCEPT !.reqN = @ + 1]))

save_contents(S, force) ==
  LET S0 == IF force THEN [S EXCEPT !.reqF = @ + 1] ELSE [S EXCEPT !.reqN = @ + 1]
      S1 == cancelSaveTimer(S0)
  IN IF force THEN persistContents(S1, "forced") ELSE armSaveTimer(S1)

\* variant: the slot keeps the handle of the fired timer
saveTimerCallback_keepsHandle(S) == persistContents(S, "timer")

\* the callback save_contents hands to setTimeout
saveTimerCallback(S) == [persistContents(S, "timer") EXCEPT !.saveTimeout = 0]

remove_selection(S) == IF S.quill THEN [S EXCEPT !.selection = FALSE] ELSE S

\* A run of growWindowToFitEditorContent that has just measured the
\* overflow: pc is the call it awaits, factor and size are its locals (size
\* in logical half pixels); needed and manual are history: the scrollHeight
\* it measured, and whether the user has changed the window since.
NewRun(S, overflowHeight) ==
  [pc |-> "scaleFactor", overflow |-> overflowHeight, factor |-> 0,
   width |-> 0, height |-> 0,
   needed |-> S.editorBox.scrollHeight, manual |-> FALSE]

\* variant: the overflow is not compared with the threshold
growWindowToFitEditorContent_noThreshold(S) ==
  LET overflowHeight == S.editorBox.scrollHeight - S.editorBox.clientHeight
  IN [S EXCEPT !.grows = Append(@, NewRun(S, overflowHeight)),
               !.winCall = [NoWinCall EXCEPT !.kind = "scaleFactor"]]

\* growWindowToFitEditorContent up to its first await: scrollHeight and
\* clientHeight are integers, which Math.ceil leaves as they are; past the
\* threshold the run asks the window for its scale factor and waits.
growWindowToFitEditorContent(S) ==
  LET overflowHeight == S.editorBox.scrollHeight - S.editorBox.clientHeight
  IN IF overflowHeight <= RESIZE_THRESHOLD_PX THEN S
     ELSE [S EXCEPT !.grows = Append(@, NewRun(S, overflowHeight)),
                    !.winCall = [NoWinCall EXCEPT !.kind = "scaleFactor"]]

\* variant: the suppression flag is not consulted
textChange_unsuppressed(S) == growWindowToFitEditorContent(save_contents(S, FALSE))

\* variant: a suppressed notification skips the geometry reaction too
textChange_suppressAll(S) ==
  IF ~S.applyingExternalUpdate
    THEN growWindowToFitEditorContent(save_contents(S, FALSE))
    ELSE S

\* the text-change handler; the editor never emits with source "silent"
textChange(S) ==
  growWindowToFitEditorContent(
    IF ~S.applyingExternalUpdate THEN save_contents(S, FALSE) ELSE S)

\* PhysicalSize.toLogical(factor), in half pixels (exact for factors 1, 2)
toLogical(px, factor) == (2 * px) \div factor

\* the run i resumes with the scale factor and asks for the inner size
growGotScaleFactor(S, i) ==
  [S EXCEPT !.grows[i].pc = "innerSize",
            !.grows[i].factor = S.appWindow.factor,
            !.winCall = [NoWinCall EXCEPT !.kind = "innerSize"]]

\* s without its element i
Remove(s, i) == SubSeq(s, 1, i - 1) \o SubSeq(s, i + 1, Len(s))

\* the run i resumes with the inner size and calls setSize
growGotInnerSize(S, i) ==
  LET run == S.grows[i]
      width == toLogical(S.appWindow.width, run.factor)
      height == toLogical(S.appWindow.height, run.factor) + 2 * run.overflow
  IN [S EXCEPT !.grows[i].pc = "setSize",
               !.grows[i].width = width,
               !.grows[i].height = height,
               !.winCall = [kind |-> "setSize", width |-> width, height |-> height,
                            overflow |-> run.overflow]]

\* the window takes the size the run i asked for (the logical size times the
\* scale factor of its display, halves dropped), and the run ends
growSetSizeDone(S, i) ==
  LET run == S.grows[i]
  IN [S EXCEPT !.grows = Remove(@, i),
               !.appWindow.width = (run.width * S.appWindow.factor) \div 2,
               !.appWindow.height = (run.height * S.appWindow.factor) \div 2]

\* the fit_text listener up to its first await: the minimum height is
\* relaxed, so that the element is laid out as tall as its content, h, and
\* the run asks the window for its scale factor
fitText(S, h) ==
  [S EXCEPT !.minHeight = FitContent,
            !.editorBox = [scrollHeight |-> h, clientHeight |-> h],
            !.fits = Append(@, [pc |-> "scaleFactor", factor |-> 0,
                                width |-> 0, height |-> 0]),
            !.winCall = [NoWinCall EXCEPT !.kind = "scaleFactor"]]

\* the run i resumes from scaleFactor(): with the factor it asks for the
\* outer size; a rejection ends the listener, which catches nothing
fitGotScaleFactor(S, i, ok) ==
  IF ~ok THEN [S EXCEPT !.fits = Remove(@, i)]
  ELSE [S EXCEPT !.fits[i].pc = "outerSize",
                 !.fits[i].factor = S.appWindow.factor,
                 !.winCall = [NoWinCall EXCEPT !.kind = "outerSize"]]

\* the run i resumes from outerSize(), which for the undecorated window of
\* a note is its inner size, and requests an animation frame; a rejection
\* ends the listener
fitGotOuterSize(S, i, ok) ==
  IF ~ok THEN [S EXCEPT !.fits = Remove(@, i)]
  ELSE [S EXCEPT !.fits[i].pc = "frame",
                 !.fits[i].width = toLogical(S.appWindow.width, S.fits[i].factor)]

\* the animation frame of the run i: setSize is called, not awaited, with
\* the width read before and the height of the element now, and the
\* minimum height is written back
fitFrame(S, i) ==
  LET height == 2 * S.editorBox.clientHeight
  IN [S EXCEPT !.fits[i].pc = "setSize",
               !.fits[i].height = height,
               !.minHeight = FixedMinHeight,
               !.winCall = [kind |-> "setSize", width |-> S.fits[i].width,
                            height |-> height, overflow |-> 0]]

\* the window takes the size the run i asked for
fitSetSizeDone(S, i) ==
  LET run == S.fits[i]
  IN [S EXCEPT !.fits = Remove(@, i),
               !.appWindow.width = (run.width * S.appWindow.factor) \div 2,
               !.appWindow.height = (run.height * S.appWindow.factor) \div 2]

\* a mutation of the document through the editor's API emits text-change
\* synchronously
mutate(S, d) == textChange([S EXCEPT !.doc = d])

\* apply_external_contents; an error thrown by the editor ends the call
\* before the statement that resets the flag
\* variant: an armed save timer is cancelled first
apply_external_contents_cancels(S, contents) ==
  IF ~S.quill THEN S
  ELSE LET S0 == cancelSaveTimer(S)
           S1 == [S0 EXCEPT !.applyingExternalUpdate = TRUE]
           delta == parseDelta(contents)
       IN IF isMeaningfulSerializedContents(contents) /\ Truthy(delta) /\ Raises(delta)
            THEN [S1 EXCEPT !.doc = BlankDoc]
          ELSE LET S2 == IF isMeaningfulSerializedContents(contents)
                           THEN IF Truthy(delta) THEN mutate(S1, setContents(delta))
                                ELSE mutate(S1, setText(contents))
                           ELSE mutate(S1, setText(<<>>))
               IN [S2 EXCEPT !.applyingExternalUpdate = FALSE]

apply_external_contents(S, contents) ==
  IF ~S.quill THEN S
  ELSE LET S1 == [S EXCEPT !.applyingExternalUpdate = TRUE]
           delta == parseDelta(contents)
       IN IF isMeaningfulSerializedContents(contents) /\ Truthy(delta) /\ Raises(delta)
            THEN [S1 EXCEPT !.doc = BlankDoc]
          ELSE LET S2 == IF isMeaningfulSerializedContents(contents)
                           THEN IF Truthy(delta) THEN mutate(S1, setContents(delta))
                                ELSE mutate(S1, setText(contents))
                           ELSE mutate(S1, setText(<<>>))
               IN [S2 EXCEPT !.applyingExternalUpdate = FALSE]

\* variant: the text-change handler is registered before the payload is loaded
editorOnMount_handlerFirst(S, init) ==
  LET S1 == [S EXCEPT !.quill = TRUE, !.doc = BlankDoc]
      S2 == IF init.present /\ init.id # "" THEN [S1 EXCEPT !.noteId = init.id] ELSE S1
      S3 == IF init.present /\ init.contents # <<>>
                 /\ isMeaningfulSerializedContents(init.contents)
              THEN LET delta == parseDelta(init.contents)
                   IN IF Truthy(delta) THEN mutate(S2, setContents(delta))
                      ELSE mutate(S2, setText(init.contents))
              ELSE S2
  IN [S3 EXCEPT !.bgColor = IF init.present /\ init.color # "" THEN init.color
                            ELSE defaultNoteColor]

\* onMount of the Editor: construction and the startup payload
editorOnMount(S, init) ==
  LET S1 == [S EXCEPT !.quill = TRUE, !.doc = BlankDoc]
      S2 == IF init.present /\ init.id # "" THEN [S1 EXCEPT !.noteId = init.id] ELSE S1
      S3 == IF init.present /\ init.contents # <<>>
                 /\ isMeaningfulSerializedContents(init.contents)
              THEN LET delta == parseDelta(init.contents)
                   IN IF Truthy(delta) THEN [S2 EXCEPT !.doc = setContents(delta)]
                      ELSE [S2 EXCEPT !.doc = setText(init.contents)]
              ELSE S2
  IN [S3 EXCEPT !.bgColor = IF init.present /\ init.color # "" THEN init.color
                            ELSE defaultNoteColor]

\* --------------------------------------------------------------- StickyNote
\* variant: the armed move timer is left alone
saveDebounce_noClear(S) ==
  LET id == FreshId(S)
  IN [S EXCEPT !.timers = setTimeout(S.timers, id, "move", MoveDelay),
               !.moveTimer = id]

\* saveDebounce: the handle of a timer that fired stays in moveTimer, and
\* clearing it does nothing
saveDebounce(S) ==
  LET S1 == IF S.moveTimer # 0
              THEN [S EXCEPT !.timers = clearTimeout(S.timers, S.moveTimer)]
              ELSE S
      id == FreshId(S1)
  IN [S1 EXCEPT !.timers = setTimeout(S1.timers, id, "move", MoveDelay),
                !.moveTimer = id]

\* save_debounce of routes/+page.svelte: move_timer is never assigned, so
\* clearTimeout(undefined) clears nothing, and the handle of the new timer
\* is dropped
save_debounce(S) ==
  [S EXCEPT !.timers = setTimeout(S.timers, FreshId(S), "move", MoveDelay)]

\* the callback of the save timer of lib/Editor.svelte: the invocation is
\* made whenever the editor is constructed, and the slot keeps the handle
libSaveTimerCallback(S) == IF S.quill THEN invokeSave(S, "timer") ELSE S

\* the callback saveDebounce hands to setTimeout; editor is bound once the
\* Editor has mounted
moveTimerCallback(S) == IF S.quill THEN save_contents(S, FALSE) ELSE S

\* variant: close_window is invoked without waiting for the forced save
closeNote_noAwait(S) ==
  [save_contents(S, TRUE) EXCEPT !.closeRun = "closing"]

\* closeNote up to the point where it has to wait: when the forced save
\* dispatched an invocation the call awaits it; when persistContents returned
\* at its guard the save is complete and close_window is invoked
closeNote(S) ==
  LET S1 == save_contents(S, TRUE)
  IN [S1 EXCEPT !.closeRun = IF S1.sent > S.sent THEN "saving" ELSE "closing"]

\* variant: the outcome of the forced save is ignored
closeNoteResume_ignoresFailure(S, ok) == [S EXCEPT !.closeRun = "closing"]

\* closeNote resumes when the invocation it awaits settles: a rejection
\* passes through persistContents, save_contents and closeNote, which has no
\* handler for it
closeNoteResume(S, ok) ==
  [S EXCEPT !.closeRun = IF ok THEN "closing" ELSE "rejected"]

\* document.getElementById("note-container"): the element is in the
\* document from the mount on, the step that also constructs the editor
noteContainer(S) == S.quill

setNoteColor(S, color) ==
  IF noteContainer(S) THEN [S EXCEPT !.bgColor = color] ELSE S

\* variant: the event forces a save, as a click on a swatch does
onSetColor_saves(S, index) ==
  IF index < Len(Palette) THEN save_contents(setNoteColor(S, Palette[index + 1]), TRUE)
  ELSE S

\* the set_color listener: colors[index], counted from 0; past the palette
\* colors[index] is undefined, which is no colour, and the style keeps its
\* value
onSetColor(S, index) ==
  IF index < Len(Palette) THEN setNoteColor(S, Palette[index + 1]) ELSE S

toggleColorMenu(S) == [S EXCEPT !.colorMenuOpen = ~@]

\* variant: the save is forced before the background is set
handleColorClick_saveFirst(S, color) ==
  toggleColorMenu(setNoteColor(save_contents(S, TRUE), color))

handleColorClick(S, color) ==
  toggleColorMenu(save_contents(setNoteColor(S, color), TRUE))

\* ----------------------------------------------------- the notes manager
\* refreshNotes up to its await: owner is the call of runNoteAction that
\* awaits it, 0 when it was started with void
refreshNotes(S, owner) ==
  [S EXCEPT !.manager.loading = TRUE,
            !.manager.issued = @ + 1,
            !.manager.lists = @ \cup {[id |-> S.manager.issued + 1, owner |-> owner]}]

\* the finally block of runNoteAction
runNoteActionFinally(S, run) ==
  [S EXCEPT !.manager.busyNoteId = "",
            !.manager.runs = {a \in @ : a.run # run}]

\* list_saved_notes settles for request r: refreshNotes resumes, and then the
\* call of runNoteAction that awaited it (refreshNotes catches its error)
listSettled(S, r, ok) ==
  LET S1 == [S EXCEPT !.manager.lists = @ \ {r}]
      S2 == IF ok THEN [S1 EXCEPT !.manager.notes = r.id, !.manager.error = FALSE,
                                  !.manager.newest = IF r.id > @ THEN r.id ELSE @]
            ELSE [S1 EXCEPT !.manager.error = TRUE]
      S3 == [S2 EXCEPT !.manager.loading = FALSE]
  IN IF r.owner = 0 THEN S3 ELSE runNoteActionFinally(S3, r.owner)

\* runNoteAction up to its await of the command
runNoteAction(S, id) ==
  [S EXCEPT !.manager.busyNoteId = id,
            !.manager.error = FALSE,
            !.manager.started = @ + 1,
            !.manager.runs = @ \cup {[run |-> S.manager.started + 1,
                                      noteId |-> id, pc |-> "command"]}]

\* the command of call a settles
commandSettled(S, a, ok) ==
  IF ok
  THEN refreshNotes([S EXCEPT !.manager.runs =
                        (@ \ {a}) \cup {[a EXCEPT !.pc = "refresh"]}], a.run)
  ELSE runNoteActionFinally([S EXCEPT !.manager.error = TRUE], a.run)

\* the tauri://focus listener up to its await of bring_all_to_front
onFocus(S) ==
  [S EXCEPT !.focusing.waiting = @ + 1, !.focusing.signal = "focus"]

\* the listener resumes: fulfilled, it marks the window; rejected, it ends
\* there
onFocusResume(S, ok) ==
  IF ok THEN [S EXCEPT !.focusing.waiting = @ - 1,
                       !.titlebarHovered = TRUE, !.focused = TRUE]
  ELSE [S EXCEPT !.focusing.waiting = @ - 1]

\* variant: the save is dispatched before the selection is cleared
onBlur_saveFirst(S) ==
  remove_selection(
    save_contents([S EXCEPT !.titlebarHovered = FALSE, !.focused = FALSE], TRUE))

onBlur(S) ==
  save_contents(
    remove_selection([S EXCEPT !.titlebarHovered = FALSE, !.focused = FALSE]),
    TRUE)

Max(a, b) == IF a > b THEN a ELSE b

zoomStep(current, payload) ==
  IF payload = "in" THEN Min(AddTenth(current), 2 * One)
  ELSE IF payload = "out" THEN Max(SubTenth(current), 5 * Tenth)
  ELSE IF payload = "reset" THEN One
  ELSE current

onZoom(S, payload) ==
  IF ~noteContainer(S) THEN S
  ELSE save_contents(
         [S EXCEPT !.zoom = zoomStep(IF S.zoom # 0 THEN S.zoom ELSE One, payload)],
         TRUE)

\* numbers of a payload that are no finite number, as labels outside the
\* range of the zoom labels; Undefined stands for a missing field
PositiveInfinity == 1000 * One
NegativeInfinity == 0 - PositiveInfinity
NaN == PositiveInfinity + 1
Undefined == PositiveInfinity + 2

\* the truth value of a number or undefined
TruthyNumber(z) == z \notin {0, NaN, Undefined}

NumberIsFinite(z) == z \notin {NaN, Undefined, PositiveInfinity, NegativeInfinity}

\* container.style.zoom = String(z): the style keeps its value when the
\* text is no value of the property, which takes numbers from 0 upwards
setStyleZoom(S, z) == IF z < 0 THEN S ELSE [S EXCEPT !.zoom = z]

\* variant: every finite number is written to the style
onExternalNoteUpdate_anyFinite(S, p) ==
  LET S1 == IF noteContainer(S) /\ p.color # "" THEN [S EXCEPT !.bgColor = p.color] ELSE S
      S2 == IF noteContainer(S) /\ NumberIsFinite(p.zoom)
              THEN setStyleZoom(S1, p.zoom) ELSE S1
  IN apply_external_contents(S2, p.contents)

\* variant: the container is not looked up
onExternalNoteUpdate_noContainerCheck(S, p) ==
  LET S1 == IF p.color # "" THEN [S EXCEPT !.bgColor = p.color] ELSE S
      S2 == IF TruthyNumber(p.zoom) /\ NumberIsFinite(p.zoom)
              THEN setStyleZoom(S1, p.zoom) ELSE S1
  IN apply_external_contents(S2, p.contents)

\* the external_note_update listener; before the mount there is neither a
\* container nor a bound editor
onExternalNoteUpdate(S, p) ==
  LET S1 == IF noteContainer(S) /\ p.color # "" THEN [S EXCEPT !.bgColor = p.color] ELSE S
      S2 == IF noteContainer(S) /\ TruthyNumber(p.zoom) /\ NumberIsFinite(p.zoom)
              THEN setStyleZoom(S1, p.zoom) ELSE S1
  IN apply_external_contents(S2, p.contents)

stickyOnMount(S, init) ==
  IF ~init.present THEN [S EXCEPT !.focused = TRUE]
  ELSE IF init.zoom # 0 /\ init.zoom # One THEN [S EXCEPT !.zoom = init.zoom]
  ELSE S

\* ------------------------------------------------------------------ actions
\* the window as it is created, and an editor whose content fits
FirstWindow == [width |-> 4, height |-> 4, factor |-> 1]
FitsBox == [scrollHeight |-> 4, clientHeight |-> 4]

Init ==
  /\ quill = FALSE
  /\ doc = BlankDoc
  /\ selection = FALSE
  /\ noteId = ""
  /\ saveTimeout = 0
  /\ applyingExternalUpdate = FALSE
  /\ bgColor = ""
  /\ zoom = 0
  /\ colorMenuOpen = FALSE
  /\ titlebarHovered = FALSE
  /\ focused = FALSE
  /\ timers = {}
  /\ inflight = 0
  /\ moveTimer = 0
  /\ editorBox = FitsBox
  /\ appWindow = FirstWindow
  /\ grows = <<>>
  /\ minHeight = FixedMinHeight
  /\ fits = <<>>
  /\ track = NoTrack
  /\ focusing = [waiting |-> 0, signal |-> "none"]
  /\ manager = NoManager
  /\ closeRun = "idle"
  /\ winCall = NoWinCall
  /\ sinceMove = MovePast
  /\ moves = [n |-> 0, answered |-> TRUE]
  /\ op = "init"
  /\ arg = Absent
  /\ sent = 0
  /\ last = NoCall
  /\ sinceReq = Past
  /\ burst = 0
  /\ owed = FALSE
  /\ after = "other"
  /\ editCalls = 0

\* events whose handler calls save_contents(true)
ForcedOps == {"blur", "zoom", "color", "save_request", "beforeunload",
              "pagehide", "hidden"}

\* events that are no save trigger and leave the payload alone
Quiet == {"tick", "timer", "settle", "resolve", "reject", "select", "menu"}

\* non-forced calls not yet answered by a timer expiry or a forced call
Pending == IF op \in ForcedOps \cup {"timer"} THEN 0 ELSE burst

\* The step of a handler that was delivered the payload a and leaves the
\* program in state S.
Commit(S, name, a) ==
  /\ S.inflight <= MaxInflight
  /\ Len(S.grows) <= MaxGrows
  /\ quill' = S.quill
  /\ doc' = S.doc
  /\ selection' = S.selection
  /\ noteId' = S.noteId
  /\ saveTimeout' = S.saveTimeout
  /\ applyingExternalUpdate' = S.applyingExternalUpdate
  /\ bgColor' = S.bgColor
  /\ zoom' = S.zoom
  /\ colorMenuOpen' = S.colorMenuOpen
  /\ titlebarHovered' = S.titlebarHovered
  /\ focused' = S.focused
  /\ timers' = S.timers
  /\ inflight' = S.inflight
  /\ moveTimer' = S.moveTimer
  /\ editorBox' = S.editorBox
  /\ appWindow' = S.appWindow
  /\ grows' = S.grows
  /\ minHeight' = S.minHeight
  /\ fits' = S.fits
  /\ track' = S.track
  /\ focusing' = S.focusing
  /\ manager' = S.manager
  /\ closeRun' = S.closeRun
  /\ winCall' = S.winCall
  /\ sinceMove' = IF name \in {"move", "resize"} THEN 0
                  ELSE Min(sinceMove + S.dt, MovePast)
  /\ moves' = IF name \in {"move", "resize"}
                 THEN [n |-> IF moves.answered THEN 1 ELSE Min(moves.n + 1, MaxBurst),
                       answered |-> FALSE]
               ELSE IF name = "move_timer" THEN [moves EXCEPT !.answered = TRUE]
               ELSE moves
  /\ last' = S.last
  /\ op' = name
  /\ arg' = a
  /\ sent' = S.sent
  /\ sinceReq' = IF S.reqN > 0 THEN 0 ELSE Min(sinceReq + S.dt, Past)
  /\ burst' = IF S.reqN > 0 THEN Min(Pending + S.reqN, MaxBurst) ELSE Pending
  /\ owed' = IF S.reqF > 0 THEN FALSE
             ELSE IF S.reqN > 0 THEN S.quill /\ S.noteId # ""
             ELSE IF name = "timer" /\ S.sent > 0 THEN FALSE
             ELSE owed
  /\ after' = IF name \in {"edit", "mount"} THEN name
              ELSE IF name \in Quiet THEN after
              ELSE IF name = "blur" /\ after = "edit" /\ sinceReq < SaveDelay THEN "blur"
              ELSE "other"
  /\ editCalls' = IF name \in {"edit", "mount"} THEN Min(S.sent, 2)
                  ELSE IF after' = "other" THEN 0
                  ELSE Min(editCalls + S.sent, 2)

\* The window is mounted: onMount of the Editor, then of the StickyNote.
Mount ==
  /\ ~quill
  /\ \E init \in InitPayloads :
       Commit(stickyOnMount(editorOnMount(Cur, init), init), "mount", init)

\* The user changes the document.
LocalEdit ==
  /\ quill
  /\ \E d \in EditDocs \ {doc} :
       Commit(mutate([Cur EXCEPT !.selection = FALSE], d), "edit", Absent)

\* Cmd+A: select the whole content
SelectAll ==
  /\ quill
  /\ LET contentLength == Len(getText(doc)) + Cardinality({i \in 1..Len(doc) : doc[i].kind = "embed"}) - 1
     IN Commit([Cur EXCEPT !.selection = contentLength > 0], "select", Absent)

\* save_request, beforeunload, pagehide
LastChance ==
  /\ quill
  /\ \E e \in {"save_request", "beforeunload", "pagehide"} :
       Commit(save_contents(Cur, TRUE), e, Absent)

VisibilityChange ==
  /\ quill
  /\ \E state \in {"hidden", "visible"} :
       Commit(IF state = "hidden" THEN save_contents(Cur, TRUE) ELSE Cur, state, Absent)

Blur == Commit(onBlur(Cur), "blur", Absent)

Zoom ==
  \E payload \in {"in", "out", "reset"} :
    LET S == onZoom(Cur, payload)
    IN /\ NearestTenth(S.zoom) - 10 <= ZoomWindow
       /\ 10 - NearestTenth(S.zoom) <= ZoomWindow
       /\ Commit(S, "zoom", Absent)

\* the buttons of the title bar are in the document from the mount on
ToggleColorMenu ==
  /\ noteContainer(Cur)
  /\ Commit(toggleColorMenu(Cur), "menu", Absent)

ColorClick ==
  /\ noteContainer(Cur)
  /\ colorMenuOpen
  /\ \E i \in 1..Len(Palette) :
       Commit(handleColorClick(Cur, Palette[i]), "color", [Absent EXCEPT !.color = Palette[i]])

SetColor ==
  \E index \in 0..Len(Palette) : Commit(onSetColor(Cur, index), "set_color", Absent)

ExternalNoteUpdate ==
  \E p \in ExternalPayloads : Commit(onExternalNoteUpdate(Cur, p), "external", p)

\* A due timer fires: its callback runs and the timer leaves the table.
TimerFire ==
  \E t \in timers :
    /\ t.left = 0
    /\ t.kind = "save"
    /\ Commit(saveTimerCallback([Cur EXCEPT !.timers = @ \ {t}]), "timer", Absent)

\* The gateway settles a pending invocation.
GatewaySettle ==
  /\ inflight > 0
  /\ Commit([Cur EXCEPT !.inflight = @ - 1], "settle", Absent)

\* Time passes, up to the next timer's due time.
Elapse(tbl, d) == {[t EXCEPT !.left = @ - d] : t \in tbl}

RECURSIVE MinLeft(_, _)
MinLeft(tbl, m) ==
  IF tbl = {} THEN m
  ELSE LET t == CHOOSE x \in tbl : TRUE
       IN MinLeft(tbl \ {t}, Min(m, t.left))

TickBy(step) ==
  /\ \A t \in timers : t.left > 0
  /\ LET d == MinLeft(timers, step)
     IN Commit([Cur EXCEPT !.timers = Elapse(timers, d), !.dt = d], "tick", Absent)

Tick == TickBy(TimeStep)

Next ==
  \/ Mount
  \/ LocalEdit
  \/ SelectAll
  \/ LastChance
  \/ VisibilityChange
  \/ Blur
  \/ Zoom
  \/ ToggleColorMenu
  \/ ColorClick
  \/ SetColor
  \/ ExternalNoteUpdate
  \/ TimerFire
  \/ GatewaySettle
  \/ Tick

Spec == Init /\ [][Next]_vars

\* ------------------------------------------------------- the codec at work
\* A string s reaches the codec as the contents of the startup payload of a
\* window about to mount, or as the contents of an external update pending
\* for a mounted window that shows one of CodecDocs; arg holds the payload.
\* What the window saves comes back to it: as an external update, or as the
\* startup payload when the window is opened again.
CodecPayload(s) ==
  [present |-> TRUE, id |-> "n1", contents |-> s, color |-> "", zoom |-> 0]

CodecInit ==
  /\ \E s \in CodecStrings : arg = CodecPayload(s)
  /\ \/ /\ quill = FALSE
        /\ doc = BlankDoc
        /\ noteId = ""
        /\ bgColor = ""
     \/ /\ quill = TRUE
        /\ doc \in CodecDocs
        /\ noteId = "n1"
        /\ bgColor = defaultNoteColor
  /\ selection = FALSE
  /\ saveTimeout = 0
  /\ applyingExternalUpdate = FALSE
  /\ zoom = 0
  /\ colorMenuOpen = FALSE
  /\ titlebarHovered = FALSE
  /\ focused = FALSE
  /\ timers = {}
  /\ inflight = 0
  /\ moveTimer = 0
  /\ editorBox = FitsBox
  /\ appWindow = FirstWindow
  /\ grows = <<>>
  /\ minHeight = FixedMinHeight
  /\ fits = <<>>
  /\ track = NoTrack
  /\ focusing = [waiting |-> 0, signal |-> "none"]
  /\ manager = NoManager
  /\ closeRun = "idle"
  /\ winCall = NoWinCall
  /\ sinceMove = MovePast
  /\ moves = [n |-> 0, answered |-> TRUE]
  /\ op = "init"
  /\ sent = 0
  /\ last = NoCall
  /\ sinceReq = Past
  /\ burst = 0
  /\ owed = FALSE
  /\ after = "other"
  /\ editCalls = 0

\* the component state of a window that has not mounted yet
Unmounted ==
  [Cur EXCEPT !.quill = FALSE, !.doc = BlankDoc, !.selection = FALSE,
              !.noteId = "", !.saveTimeout = 0, !.bgColor = "", !.zoom = 0,
              !.colorMenuOpen = FALSE, !.titlebarHovered = FALSE,
              !.focused = FALSE, !.timers = {}, !.inflight = 0]

CodecMount ==
  /\ ~quill
  /\ Commit(stickyOnMount(editorOnMount(Cur, arg), arg), "mount", arg)

CodecExternal ==
  /\ quill
  /\ Commit(onExternalNoteUpdate(Cur, arg), "external", arg)

\* save_request; the backend now holds the contents of the invocation
CodecSave ==
  /\ quill
  /\ LET S == save_contents(Cur, TRUE)
     IN Commit(S, "save_request",
               IF S.sent > 0 THEN CodecPayload(S.last.contents) ELSE arg)

CodecSettle ==
  /\ inflight > 0
  /\ Commit([Cur EXCEPT !.inflight = @ - 1], "settle", arg)

\* the window is closed after a save and opened again on what was saved
CodecReopen ==
  /\ op = "save_request"
  /\ sent > 0
  /\ Commit(stickyOnMount(editorOnMount(Unmounted, arg), arg), "mount", arg)

CodecNext ==
  \/ CodecMount
  \/ CodecExternal
  \/ CodecSave
  \/ CodecSettle
  \/ CodecReopen

SpecCodec == CodecInit /\ [][CodecNext]_vars

\* ------------------------------------------------------ the zoom controls
\* zoom factors the backend delivers in a startup payload or an external
\* update: 1.0, 1.1, and two that no zoom control of a window produces,
\* 0.2 and 3.0
ZoomFactors == {One, 11 * Tenth, 2 * Tenth, 3 * One}

ZoomInitPayloads ==
  {Absent} \cup
  {[present |-> TRUE, id |-> "n1", contents |-> <<>>, color |-> "", zoom |-> z] :
     z \in ZoomFactors}

ZoomExternalPayloads ==
  {[present |-> TRUE, id |-> "", contents |-> <<>>, color |-> "", zoom |-> z] :
     z \in ZoomFactors \cup {0}}

ZoomMount ==
  /\ ~quill
  /\ \E init \in ZoomInitPayloads :
       Commit(stickyOnMount(editorOnMount(Cur, init), init), "mount", init)

\* a zoom event; arg keeps its payload in contents
ZoomRequest ==
  \E payload \in {"in", "out", "reset"} :
    Commit(onZoom(Cur, payload), "zoom", [Absent EXCEPT !.contents = <<payload>>])

ZoomExternal ==
  \E p \in ZoomExternalPayloads : Commit(onExternalNoteUpdate(Cur, p), "external", p)

ZoomNext ==
  \/ ZoomMount
  \/ ZoomRequest
  \/ ZoomExternal
  \/ GatewaySettle

SpecZoom == Init /\ [][ZoomNext]_vars

\* ------------------------------------------------- the window that grows
\* what the content may lack in height after a change, in pixels
Overflows == {RESIZE_THRESHOLD_PX, RESIZE_THRESHOLD_PX + 1}

\* the editor's box after a change: as tall as the window, its content
\* taller by o
GeoBox(S, o) ==
  LET c == S.appWindow.height \div S.appWindow.factor
  IN [scrollHeight |-> c + o, clientHeight |-> c]

\* sizes the user gives the window, and displays the user moves it to
GeoWindows ==
  {[width |-> 4, height |-> 4, factor |-> 1],
   [width |-> 6, height |-> 5, factor |-> 1],
   [width |-> 7, height |-> 6, factor |-> 2]}

GeoExternalPayloads ==
  {[present |-> TRUE, id |-> "", contents |-> JSONStringify(DocA), color |-> "", zoom |-> 0]}

GeoMount ==
  /\ ~quill
  /\ Commit(stickyOnMount(editorOnMount(Cur, Absent), Absent), "mount", Absent)

\* a local edit, after which the content is o pixels too tall
GeoEdit ==
  /\ quill
  /\ \E d \in {BlankDoc, DocA} \ {doc}, o \in Overflows :
       /\ o > RESIZE_THRESHOLD_PX => appWindow.height <= MaxHeight
       /\ Commit(mutate([Cur EXCEPT !.selection = FALSE, !.editorBox = GeoBox(Cur, o)], d),
                 "edit", Absent)

\* an external update, after which the content is o pixels too tall
GeoExternal ==
  /\ quill
  /\ \E p \in GeoExternalPayloads, o \in Overflows :
       /\ o > RESIZE_THRESHOLD_PX => appWindow.height <= MaxHeight
       /\ Commit(onExternalNoteUpdate([Cur EXCEPT !.editorBox = GeoBox(Cur, o)], p),
                 "external", p)

\* the window answers scaleFactor() of a waiting run
GeoScaleFactor ==
  \E i \in 1..Len(grows) :
    /\ grows[i].pc = "scaleFactor"
    /\ Commit(growGotScaleFactor(Cur, i), "scaleFactor", Absent)

\* the window answers innerSize() of a waiting run
GeoInnerSize ==
  \E i \in 1..Len(grows) :
    /\ grows[i].pc = "innerSize"
    /\ Commit(growGotInnerSize(Cur, i), "innerSize", Absent)

\* the window carries out setSize of a waiting run
GeoSetSize ==
  \E i \in 1..Len(grows) :
    /\ grows[i].pc = "setSize"
    /\ Commit(growSetSizeDone(Cur, i), "setSize", Absent)

\* the user resizes a window that has not grown yet, or moves it to
\* another display while no run waits
GeoWindowChange ==
  \E w \in GeoWindows \ {appWindow} :
    /\ appWindow \in GeoWindows
    /\ w.factor = appWindow.factor \/ grows = <<>>
    /\ Commit([Cur EXCEPT !.appWindow = w,
                          !.grows = [i \in 1..Len(grows) |->
                                       [grows[i] EXCEPT !.manual = TRUE]]],
              "window", Absent)

GeoNext ==
  \/ GeoMount
  \/ GeoEdit
  \/ GeoExternal
  \/ GeoScaleFactor
  \/ GeoInnerSize
  \/ GeoSetSize
  \/ GeoWindowChange

SpecGeometry == Init /\ [][GeoNext]_vars

\* ----------------------------------------------- the window that moves
\* the startup payload of the window that is moved
MovePayload ==
  [present |-> TRUE, id |-> "n1", contents |-> JSONStringify(DocA), color |-> "", zoom |-> One]

MoveMount ==
  /\ ~quill
  /\ Commit(stickyOnMount(editorOnMount(Cur, MovePayload), MovePayload), "mount", MovePayload)

MoveTimers == {t \in timers : t.kind = "move"}

\* tauri://move and tauri://resize, both heard by saveDebounce
MoveSignal ==
  /\ quill
  /\ \E e \in {"move", "resize"} : Commit(saveDebounce(Cur), e, Absent)

\* the due move timer fires: its callback runs and the timer leaves the table
MoveTimerFire ==
  \E t \in timers :
    /\ t.left = 0
    /\ t.kind = "move"
    /\ Commit(moveTimerCallback([Cur EXCEPT !.timers = @ \ {t}]), "move_timer", Absent)

MoveEdit ==
  /\ quill
  /\ \E d \in {BlankDoc, DocA} \ {doc} :
       Commit(mutate([Cur EXCEPT !.selection = FALSE], d), "edit", Absent)

MoveTick == TickBy(MoveStep)

MoveNext ==
  \/ MoveMount
  \/ MoveSignal
  \/ MoveTimerFire
  \/ MoveEdit
  \/ TimerFire
  \/ GatewaySettle
  \/ MoveTick

SpecMove == Init /\ [][MoveNext]_vars

\* -------------------------------- the window of routes/+page.svelte moves
\* tauri://move and tauri://resize, both heard by save_debounce
PageSignal ==
  /\ quill
  /\ Cardinality(MoveTimers) < MaxMoveTimers
  /\ \E e \in {"move", "resize"} : Commit(save_debounce(Cur), e, Absent)

\* a due save timer of lib/Editor.svelte fires
PageSaveTimerFire ==
  \E t \in timers :
    /\ t.left = 0
    /\ t.kind = "save"
    /\ Commit(libSaveTimerCallback([Cur EXCEPT !.timers = @ \ {t}]), "timer", Absent)

\* the callback of a move timer, editor?.save_contents(), requests what
\* moveTimerCallback requests: the save timer is cleared and armed anew
PageNext ==
  \/ MoveMount
  \/ PageSignal
  \/ MoveTimerFire
  \/ PageSaveTimerFire
  \/ GatewaySettle
  \/ MoveTick

SpecPage == Init /\ [][PageNext]_vars

\* ------------------------------------------------ the window that closes
ClosePayloads == {Absent, MovePayload}

CloseMount ==
  /\ ~quill
  /\ \E init \in ClosePayloads :
       Commit(stickyOnMount(editorOnMount(Cur, init), init), "mount", init)

\* a click on the close button, while the window is still open and no
\* earlier call of closeNote is waiting
CloseClick ==
  /\ quill
  /\ closeRun \in {"idle", "rejected"}
  /\ Commit(closeNote(Cur), "close", Absent)

CloseEdit ==
  /\ quill
  /\ closeRun # "closing"
  /\ \E d \in {BlankDoc, DocA} \ {doc} :
       Commit(mutate([Cur EXCEPT !.selection = FALSE], d), "edit", Absent)

CloseBlur ==
  /\ closeRun # "closing"
  /\ Commit(onBlur(Cur), "blur", Absent)

\* the gateway settles the invocation closeNote awaits
CloseSettle ==
  /\ closeRun = "saving"
  /\ \E ok \in BOOLEAN :
       Commit(closeNoteResume([Cur EXCEPT !.inflight = @ - 1], ok),
              IF ok THEN "resolve" ELSE "reject", Absent)

\* the gateway settles an invocation that closeNote does not await; nothing
\* in the window reacts to its outcome
CloseSettleOther ==
  /\ inflight > (IF closeRun = "saving" THEN 1 ELSE 0)
  /\ Commit([Cur EXCEPT !.inflight = @ - 1], "settle", Absent)

CloseNext ==
  \/ CloseMount
  \/ CloseClick
  \/ CloseEdit
  \/ CloseBlur
  \/ CloseSettle
  \/ CloseSettleOther
  \/ TimerFire
  \/ Tick

SpecClose == Init /\ [][CloseNext]_vars

\* ------------------------------------- the gateway that may reject a save
\* the gateway fulfils or rejects a pending invocation
SettleOutcome ==
  /\ inflight > 0
  /\ \E ok \in BOOLEAN :
       Commit(invocationSettled(Cur, ok), IF ok THEN "resolve" ELSE "reject", Absent)

SettleNext ==
  \/ CloseMount
  \/ CloseEdit
  \/ CloseBlur
  \/ SettleOutcome
  \/ TimerFire
  \/ Tick

SpecSettle == Init /\ [][SettleNext]_vars

\* --------------------------------------------- the window that is updated
\* {"ops":[{"insert":{"insert":"a"}}]}: a delta whose one embed is no format
\* of the editor
ForeignEmbed ==
  <<OPS_OPEN, INSERT_OPEN, INSERT_OPEN, QUOTE, "a", QUOTE, OBJ_CLOSE, OBJ_CLOSE, OPS_CLOSE>>

\* zoom fields of a payload: missing, no number, infinite, zero, negative
\* and two factors
UpdateZooms ==
  {Undefined, NaN, PositiveInfinity, NegativeInfinity, 0, 0 - One, One, 12 * Tenth}

UpdatePayloads ==
  {[present |-> TRUE, id |-> "", contents |-> c, color |-> "", zoom |-> Undefined] :
     c \in {JSONStringify(DocA), JSONStringify(DocImage), ForeignEmbed}} \cup
  {[present |-> TRUE, id |-> "", contents |-> JSONStringify(DocA), color |-> c, zoom |-> z] :
     c \in {"", "c2"}, z \in UpdateZooms}

UpdateMount ==
  /\ ~quill
  /\ Commit(stickyOnMount(editorOnMount(Cur, MovePayload), MovePayload), "mount", MovePayload)

UpdateExternal ==
  \E p \in UpdatePayloads : Commit(onExternalNoteUpdate(Cur, p), "external", p)

UpdateEdit ==
  /\ quill
  /\ \E d \in {BlankDoc, DocA} \ {doc} :
       Commit(mutate([Cur EXCEPT !.selection = FALSE], d), "edit", Absent)

UpdateNext ==
  \/ UpdateMount
  \/ UpdateExternal
  \/ UpdateEdit
  \/ TimerFire
  \/ GatewaySettle
  \/ Tick

SpecUpdate == Init /\ [][UpdateNext]_vars

\* ------------------------------------------- edits that must not be lost
\* the history of a step that left the program in state S: mutation names
\* the change of the document the step made, "" when it made none
Tracked(S, mutation) ==
  [S EXCEPT !.track = [mutation |-> IF mutation # "" THEN mutation ELSE @.mutation,
                       dispatched |-> @.dispatched \/ S.sent > 0,
                       contents |-> IF S.sent > 0 THEN S.last.contents ELSE @.contents]]

LostPayloads ==
  {[present |-> TRUE, id |-> "", contents |-> c, color |-> "", zoom |-> Undefined] :
     c \in {JSONStringify(DocImage), ForeignEmbed}}

LostEdit ==
  /\ quill
  /\ \E d \in {BlankDoc, DocA} \ {doc} :
       Commit(Tracked(mutate([Cur EXCEPT !.selection = FALSE], d), "local"), "edit", Absent)

LostExternal ==
  /\ quill
  /\ \E p \in LostPayloads :
       Commit(Tracked(onExternalNoteUpdate(Cur, p), "external"), "external", p)

LostBlur ==
  /\ quill
  /\ Commit(Tracked(onBlur(Cur), ""), "blur", Absent)

LostTimerFire ==
  \E t \in timers :
    /\ t.left = 0
    /\ t.kind = "save"
    /\ Commit(Tracked(saveTimerCallback([Cur EXCEPT !.timers = @ \ {t}]), ""), "timer",
              Absent)

LostNext ==
  \/ CloseMount
  \/ LostEdit
  \/ LostExternal
  \/ LostBlur
  \/ LostTimerFire
  \/ GatewaySettle
  \/ Tick

\* time passes, a due timer fires and the gateway settles every invocation
SpecLost ==
  /\ Init
  /\ [][LostNext]_vars
  /\ WF_vars(Tick)
  /\ WF_vars(LostTimerFire)
  /\ WF_vars(GatewaySettle)

\* ------------------------------------------ the window that gains focus
FocusGained ==
  /\ quill
  /\ focusing.waiting < MaxFocus
  /\ Commit(onFocus(Cur), "focus", Absent)

\* bring_all_to_front settles for the run that has waited longest
FocusResume ==
  /\ focusing.waiting > 0
  /\ \E ok \in BOOLEAN :
       Commit(onFocusResume(Cur, ok), IF ok THEN "focused" ELSE "focusReject", Absent)

FocusBlur ==
  /\ quill
  /\ Commit([onBlur(Cur) EXCEPT !.focusing.signal = "blur"], "blur", Absent)

FocusNext ==
  \/ CloseMount
  \/ FocusGained
  \/ FocusResume
  \/ FocusBlur
  \/ CloseEdit
  \/ TimerFire
  \/ GatewaySettle
  \/ Tick

SpecFocus == Init /\ [][FocusNext]_vars

\* ------------------------------------------- the notes manager's window
ManagerNotes == {"n1", "n2"}

ManagerMount ==
  /\ ~manager.mounted
  /\ Commit(refreshNotes([Cur EXCEPT !.manager.mounted = TRUE], 0), "managerMount", Absent)

\* every list request a started call will make fits below MaxIssued
ManagerRoom(S) ==
  S.manager.issued + Cardinality({a \in S.manager.runs : a.pc = "command"}) < MaxIssued

ManagerNotesChanged ==
  /\ manager.mounted
  /\ ManagerRoom(Cur)
  /\ Commit(refreshNotes(Cur, 0), "notes_changed", Absent)

ManagerFocus ==
  /\ manager.mounted
  /\ ManagerRoom(Cur)
  /\ Commit(refreshNotes(Cur, 0), "managerFocus", Absent)

\* a click on an action button of a listed note: the rows are rendered when
\* loading is false and the list has notes, the button is enabled unless
\* busyNoteId is its note
ManagerClick ==
  /\ manager.mounted
  /\ ~manager.loading
  /\ manager.notes # 0
  /\ manager.started < MaxStarted
  /\ ManagerRoom(Cur)
  /\ \E id \in ManagerNotes :
       /\ manager.busyNoteId # id
       /\ Commit(runNoteAction(Cur, id), "action", Absent)

ManagerCommandSettle ==
  \E a \in manager.runs : \E ok \in BOOLEAN :
    /\ a.pc = "command"
    /\ Commit(commandSettled(Cur, a, ok), IF ok THEN "command" ELSE "commandReject", Absent)

ManagerListSettle ==
  \E r \in manager.lists : \E ok \in BOOLEAN :
    Commit(listSettled(Cur, r, ok), IF ok THEN "list" ELSE "listReject", Absent)

ManagerNext ==
  \/ ManagerMount
  \/ ManagerNotesChanged
  \/ ManagerFocus
  \/ ManagerClick
  \/ ManagerCommandSettle
  \/ ManagerListSettle

SpecManager == Init /\ [][ManagerNext]_vars

\* ------------------------------------------------- fit_text specification
\* heights of the content when fit_text arrives, in logical pixels
FitHeights == {2, 3}

FitMount ==
  /\ ~quill
  /\ Commit(stickyOnMount(editorOnMount(Cur, Absent), Absent), "mount", Absent)

\* the fit_text event; the listener is registered by the mount
FitRequest ==
  /\ quill
  /\ Len(fits) < MaxFits
  /\ \E h \in FitHeights : Commit(fitText(Cur, h), "fit_text", Absent)

\* the window answers scaleFactor() of a waiting run, or fails to
FitScaleFactor ==
  \E i \in 1..Len(fits), ok \in BOOLEAN :
    /\ fits[i].pc = "scaleFactor"
    /\ Commit(fitGotScaleFactor(Cur, i, ok), IF ok THEN "fitScaleFactor" ELSE "fitReject",
              Absent)

\* the window answers outerSize() of a waiting run, or fails to
FitOuterSize ==
  \E i \in 1..Len(fits), ok \in BOOLEAN :
    /\ fits[i].pc = "outerSize"
    /\ Commit(fitGotOuterSize(Cur, i, ok), IF ok THEN "fitOuterSize" ELSE "fitReject",
              Absent)

\* the browser runs the animation frame callback of a waiting run
FitFrame ==
  \E i \in 1..Len(fits) :
    /\ fits[i].pc = "frame"
    /\ Commit(fitFrame(Cur, i), "frame", Absent)

\* the window carries out setSize of a run
FitSetSize ==
  \E i \in 1..Len(fits) :
    /\ fits[i].pc = "setSize"
    /\ Commit(fitSetSizeDone(Cur, i), "fitSetSize", Absent)

\* the user resizes the window, or moves it to another display while no
\* run waits
FitWindowChange ==
  \E w \in GeoWindows \ {appWindow} :
    /\ w.factor = appWindow.factor \/ fits = <<>>
    /\ Commit([Cur EXCEPT !.appWindow = w], "window", Absent)

FitNext ==
  \/ FitMount
  \/ FitRequest
  \/ FitScaleFactor
  \/ FitOuterSize
  \/ FitFrame
  \/ FitSetSize
  \/ FitWindowChange

\* the window settles every query, the browser runs every requested frame
\* while the window is shown, and the window carries out every setSize
SpecFit ==
  /\ Init
  /\ [][FitNext]_vars
  /\ WF_vars(FitScaleFactor)
  /\ WF_vars(FitOuterSize)
  /\ WF_vars(FitFrame)
  /\ WF_vars(FitSetSize)

\* ------------------------------------------------------------- properties
SaveTimers == {t \in timers : t.kind = "save"}

LastChanceOps == {"save_request", "beforeunload", "pagehide", "hidden"}

\* the invocation dispatched by the last step carries the live state
LivePayload ==
  /\ last.noteId = noteId
  /\ last.contents = serializeContents(Cur)
  /\ last.color = getNoteColor(Cur)
  /\ last.zoom = getZoomLevel(Cur)

\* the serialized contents c encode the document d
Encodes(c, d) ==
  IF c = <<>>
    THEN /\ \A i \in 1..Len(d) : d[i].kind = "text"
         /\ Trim(getText(d)) = <<>>
    ELSE /\ JSONParse(c).t = "delta"
         /\ setContents(JSONParse(c)) = d

\* C1: a burst of non-forced save_contents calls made with the editor
\* initialized and the note id bound, with no forced call after them, is
\* answered by exactly one gateway invocation; it is dispatched by the timer
\* SaveDelay after the last call of the burst, not earlier and not later, and
\* carries the contents, color and zoom the window has when the timer fires.
C1_Coalescing ==
  [][ /\ (op' = "timer" /\ sent' > 0) =>
           /\ owed
           /\ Pending > 0
           /\ sinceReq = SaveDelay
           /\ sent' = 1
           /\ LivePayload'
           /\ SaveTimers' = {}
           /\ ~owed'
      /\ owed' => sinceReq' <= SaveDelay ]_vars

\* a timer dispatch that answers two or more coalesced calls
C1_Witness == op = "timer" /\ sent = 1 /\ burst >= 2 /\ last.via = "timer"

\* C2 as stated: a forced save_contents call made while a timer is armed
\* cancels the timer and dispatches exactly one invocation.
C2_Original ==
  [][ (op' \in ForcedOps /\ SaveTimers # {}) =>
         (SaveTimers' = {} /\ sent' = 1 /\ last'.via = "forced") ]_vars

\* C2 (amended): a forced save_contents call made while a timer is armed
\* cancels the timer; it dispatches exactly one invocation at once when the
\* editor is initialized and a note id is bound, and none otherwise; a timer
\* dispatches only for a non-forced call made after the last forced one.
C2_ForcedCancels ==
  [][ /\ (op' \in ForcedOps /\ SaveTimers # {}) =>
           /\ SaveTimers' = {}
           /\ saveTimeout' = 0
           /\ IF quill /\ noteId # ""
                THEN sent' = 1 /\ last'.via = "forced"
                ELSE sent' = 0
      /\ (op' = "timer" /\ sent' > 0) => Pending > 0 ]_vars

\* a forced call has just cancelled the timer of pending calls and dispatched
C2_Witness ==
  op \in ForcedOps /\ burst > 0 /\ sent = 1 /\ last.via = "forced" /\ SaveTimers = {}

\* C3: an external update applied to an initialized editor with no timer
\* armed dispatches nothing, makes no save_contents call and leaves no timer
\* armed and the suppression flag down.
C3_EchoSuppression ==
  [][ (op' = "external" /\ quill /\ SaveTimers = {}) =>
         /\ sent' = 0
         /\ inflight' = inflight
         /\ SaveTimers' = {}
         /\ saveTimeout' = 0
         /\ sinceReq' = sinceReq
         /\ ~applyingExternalUpdate' ]_vars

\* an external update has replaced the document and nothing is armed
C3_Witness ==
  /\ op = "external" /\ quill /\ SaveTimers = {} /\ sent = 0
  /\ arg.contents = JSONStringify(DocA) /\ doc = DocA

\* C4: at most one save timer is armed, and the slot holds its handle: the
\* slot is null exactly when no save timer is armed.
C4_OneTimer ==
  /\ Cardinality(SaveTimers) <= 1
  /\ saveTimeout = 0 => SaveTimers = {}
  /\ saveTimeout # 0 => TimerIds(SaveTimers) = {saveTimeout}

\* the timer has been re-armed by a second call of a burst
C4_Witness == op = "edit" /\ burst >= 2 /\ Cardinality(SaveTimers) = 1

\* C5 as stated: a local edit followed by a blur less than SaveDelay later
\* yields exactly one invocation, the forced one of the blur.
C5_Original ==
  after = "blur" =>
    /\ editCalls = 1
    /\ op = "blur" => (sent = 1 /\ last.via = "forced")

\* C5 (amended): in a window with a bound note id, a local edit followed by
\* a blur less than SaveDelay later yields exactly one invocation: the forced
\* one, dispatched by the blur handler with the selection already cleared;
\* the timer of the edit is gone and dispatches nothing afterwards.
C5_EditThenBlur ==
  (after = "blur" /\ noteId # "") =>
    /\ editCalls = 1
    /\ SaveTimers = {}
    /\ op = "blur" => (sent = 1 /\ last.via = "forced" /\ ~last.sel /\ ~selection)

\* well past the deadline of the edit's timer, the blur's invocation is the only one
C5_Witness == after = "blur" /\ noteId # "" /\ sinceReq = Past /\ editCalls = 1

\* C6 as stated: in a window mounted without a startup payload a local edit
\* followed by more than SaveDelay without a trigger has produced exactly
\* one invocation.
C6_Original ==
  (quill /\ noteId = "" /\ after = "edit" /\ sinceReq > SaveDelay) => editCalls = 1

\* C6 (amended): in a window whose startup payload bound a note id, a local
\* edit followed by SaveDelay without a trigger produces exactly one
\* invocation, none before that, and its contents encode the edited
\* document; a window mounted without a payload has no note id and produces
\* none.
C6_EditThenWait ==
  /\ (after = "edit" /\ noteId # "" /\ sinceReq > SaveDelay) => editCalls = 1
  /\ (after = "edit" /\ sinceReq < SaveDelay) => editCalls = 0
  /\ (after = "edit" /\ op = "timer" /\ sent > 0) =>
        (sent = 1 /\ last.via = "timer" /\ Encodes(last.contents, doc))
  /\ (after = "edit" /\ noteId = "") => editCalls = 0

\* the timer of an edit has just dispatched the encoded document
C6_Witness ==
  /\ after = "edit" /\ op = "timer" /\ sent = 1 /\ editCalls = 1
  /\ doc = DocA /\ last.contents = JSONStringify(DocA)

\* C7 as stated: no two gateway invocations of the window are pending at
\* the same time.
C7_NoOverlap == inflight <= 1

\* C8: mounting dispatches nothing and arms nothing, nothing is dispatched
\* while no trigger follows, and the payload contents are loaded into the
\* editor only when they are meaningful.
C8_StartupNeverSaves ==
  /\ op = "mount" =>
       /\ sent = 0
       /\ timers = {}
       /\ saveTimeout = 0
       /\ ~owed
       /\ doc # BlankDoc => (arg.present /\ isMeaningfulSerializedContents(arg.contents))
  /\ after = "mount" => (editCalls = 0 /\ SaveTimers = {} /\ inflight = 0)

\* a meaningful payload was loaded and time has passed since
C8_Witness == after = "mount" /\ op = "tick" /\ noteId # "" /\ doc = DocA

\* C9 as stated: every last-chance signal dispatches an invocation.
C9_Original ==
  [][ op' \in LastChanceOps => (SaveTimers' = {} /\ sent' = 1) ]_vars

\* C9 (amended): each last-chance signal cancels the armed timer and, when a
\* note id is bound, dispatches one forced invocation carrying the live
\* state within its handler (none when no id is bound); a visibilitychange
\* to another state than hidden dispatches nothing and leaves the timer as
\* it is.
C9_LastChance ==
  [][ /\ op' \in LastChanceOps =>
           /\ SaveTimers' = {}
           /\ saveTimeout' = 0
           /\ IF noteId # ""
                THEN sent' = 1 /\ last'.via = "forced" /\ LivePayload'
                ELSE sent' = 0
      /\ op' = "visible" =>
           (sent' = 0 /\ timers' = timers /\ saveTimeout' = saveTimeout
              /\ inflight' = inflight) ]_vars

\* a page hide with calls pending has cancelled the timer and dispatched
C9_Witness == op = "pagehide" /\ burst > 0 /\ sent = 1 /\ SaveTimers = {}

\* C10: a gateway invocation is dispatched, or pending, only with the editor
\* initialized and a note id bound, and it carries that id; a request whose
\* guard fails dispatches nothing.
C10_Guard ==
  /\ (sent > 0 \/ inflight > 0) => (quill /\ noteId # "")
  /\ sent > 0 => (last.noteId = noteId /\ last.noteId # "")

\* the timer of a debounced request fired in a window without a note id
C10_Witness == op = "timer" /\ quill /\ noteId = "" /\ sent = 0

\* ------------------------------------------------------ codec properties
\* the string is empty or whitespace only
Blank(s) == \A i \in 1..Len(s) : s[i] \in Whitespace

\* the op is a text insert that is empty or whitespace only
BlankText(o) == o.kind = "text" /\ Blank(o.text)

\* the document shows something: an embed, or a character that is not
\* whitespace
HasContent(d) == \E i \in 1..Len(d) : ~BlankText(d[i])

\* C11: isMeaningfulSerializedContents(s) is a function of s alone; it is
\* false for an empty or whitespace-only s and for an s that decodes to a
\* document whose ops are all empty or whitespace-only text inserts (none
\* included); true for a document with an embed or a text insert holding a
\* non-whitespace character; true for every other non-blank s that does not
\* decode to a document with an ops list.
C11_Classification ==
  LET s == arg.contents
      v == JSONParse(s)
      m == isMeaningfulSerializedContents(s)
  IN /\ Blank(s) => ~m
     /\ (v.t = "delta" /\ \A i \in 1..Len(v.ops) : BlankText(v.ops[i])) => ~m
     /\ (v.t = "delta" /\ \E i \in 1..Len(v.ops) :
            \/ v.ops[i].kind = "embed"
            \/ v.ops[i].kind = "text" /\ ~Blank(v.ops[i].text)) => m
     /\ (~Blank(s) /\ v.t # "delta") => m

\* an encoded document of two whitespace-only inserts was classified as not
\* meaningful and cleared the editor
C11_Witness ==
  /\ op = "external"
  /\ arg.contents = JSONStringify(<<TextOp(<<SP>>), TextOp(<<NL>>)>>)
  /\ doc = BlankDoc

\* C12: serializeContents returns the empty string exactly when the editor
\* is uninitialized or the document shows nothing, and the JSON encoding of
\* the document otherwise; the contents of an invocation are what it
\* returns, and when not empty they are classified as meaningful.
C12_Serialize ==
  LET s == serializeContents(Cur)
  IN /\ s = <<>> <=> (~quill \/ ~HasContent(doc))
     /\ s # <<>> => s = JSONStringify(doc)
     /\ sent > 0 => /\ last.contents = s
                    /\ s # <<>> => isMeaningfulSerializedContents(s)

\* a document of whitespace only was saved as the empty string
C12_Witness ==
  op = "save_request" /\ sent = 1 /\ doc = DocSpace /\ last.contents = <<>>

\* C13: what a window saves of a document that shows something is
\* classified as meaningful, and loading it back (as an external update, or
\* as the startup payload of the window opened again) reconstructs the
\* document.
C13_RoundTrip ==
  [][ (op = "save_request" /\ sent = 1 /\ HasContent(doc)
         /\ op' \in {"external", "mount"}) =>
        /\ isMeaningfulSerializedContents(last.contents)
        /\ arg'.contents = last.contents
        /\ doc' = doc ]_vars

\* a document with an embed and a quote was saved and came back as an
\* external update while the invocation was pending
C13_Witness ==
  /\ op = "external"
  /\ inflight = 1
  /\ doc = <<EmbedOp, TextOp(<<QUOTE, NL>>)>>
  /\ arg.contents = JSONStringify(doc)

\* what the reconciler is to leave in the editor for the string s: the
\* decoded document, the raw string when s is no document, nothing when s
\* is not meaningful
Reconciled(s) ==
  IF ~isMeaningfulSerializedContents(s) THEN BlankDoc
  ELSE IF JSONParse(s).t = "delta" THEN EndWithNewline(Compact(JSONParse(s).ops))
  ELSE setText(s)

\* C14 as stated: after an external update the editor holds the decoded
\* document, the raw string as plain text when the string is meaningful and
\* is no document, and the empty document when it is not meaningful.
C14_Original == (op = "external" /\ quill) => doc = Reconciled(arg.contents)

\* C15 as stated: a non-blank string that is no document with an ops list
\* is shown as it is, as one text insert, after a startup load or an
\* external update.
C15_Original ==
  (op \in {"mount", "external"} /\ quill /\ arg.present
     /\ ~Blank(arg.contents) /\ JSONParse(arg.contents).t # "delta") =>
    doc = setText(arg.contents)

\* ------------------------------------------------------- zoom properties
\* the factor is one of 0.5, 0.6, ..., 2.0
ExactTenth(x) == x % Tenth = 0 /\ 5 * Tenth <= x /\ x <= 2 * One

InZoomRange(x) == 5 * Tenth <= x /\ x <= 2 * One

\* C16 as stated: a zoom event that finds the factor at one of 0.5, 0.6,
\* ..., 2.0 (as it is at the default, and after every step if the claim
\* holds) raises it by 0.1 on "in", lowers it by 0.1 on "out" and sets it to
\* 1.0 on "reset", within the limits; and it dispatches exactly one forced
\* invocation whose zoom field is the factor just set.
C16_Original ==
  [][ (op' = "zoom" /\ ExactTenth(getZoomLevel(Cur))) =>
        /\ arg'.contents = <<"in">> => zoom' = Min(getZoomLevel(Cur) + Tenth, 2 * One)
        /\ arg'.contents = <<"out">> => zoom' = Max(getZoomLevel(Cur) - Tenth, 5 * Tenth)
        /\ arg'.contents = <<"reset">> => zoom' = One
        /\ sent' = 1
        /\ last'.via = "forced"
        /\ last'.zoom = zoom' ]_vars

\* C17 as stated: after a zoom request the factor lies in [0.5, 2.0], and so
\* does the zoom field of the invocation the request dispatches.
C17_Original ==
  op = "zoom" => (InZoomRange(zoom) /\ (sent > 0 => InZoomRange(last.zoom)))

\* --------------------------------------------------- geometry properties
\* what the content lacks in height in the box b
Overflow(b) == b.scrollHeight - b.clientHeight

\* C18: growWindowToFitEditorContent calls setSize only in a run whose
\* overflow is greater than 2; the height it asks for is the inner height the
\* run has just read, made logical with the scale factor the run read, plus
\* the overflow, and the width is the width read; a change of the content
\* that leaves an overflow of at most 2 makes no call to the window and starts
\* no run, while a local edit with a larger overflow starts one run that
\* carries the measured overflow.
C18_Growth ==
  [][/\ winCall'.kind = "setSize" =>
          \E i \in 1..Len(grows) :
            /\ grows[i].pc = "innerSize"
            /\ grows[i].overflow > RESIZE_THRESHOLD_PX
            /\ winCall'.overflow = grows[i].overflow
            /\ winCall'.height = toLogical(appWindow.height, grows[i].factor)
                                   + 2 * grows[i].overflow
            /\ winCall'.width = toLogical(appWindow.width, grows[i].factor)
            /\ grows' = [grows EXCEPT ![i].pc = "setSize",
                                      ![i].width = winCall'.width,
                                      ![i].height = winCall'.height]
     /\ (op' \in {"edit", "external", "mount"} /\ Overflow(editorBox') <= RESIZE_THRESHOLD_PX) =>
          (winCall' = NoWinCall /\ grows' = grows)
     /\ (op' = "edit" /\ Overflow(editorBox') > RESIZE_THRESHOLD_PX) =>
          /\ winCall'.kind = "scaleFactor"
          /\ grows' = Append(grows, NewRun([editorBox |-> editorBox'],
                                            Overflow(editorBox')))
    ]_vars

\* a window of 7 by 6 physical pixels at scale 2 is asked to become 3.5 by
\* 6 logical pixels for an overflow of 3
C18_Witness ==
  /\ op = "innerSize"
  /\ winCall = [kind |-> "setSize", width |-> 7, height |-> 12, overflow |-> 3]
  /\ appWindow = [width |-> 7, height |-> 6, factor |-> 2]
  /\ Len(grows) = 1 /\ grows[1].pc = "setSize"

\* C33: in the window of routes/+page.svelte at most one move timer is armed
\* at any time, and the callback of a move timer answers a burst that was
\* not answered yet and leaves no move timer behind, so each burst is
\* answered by one request.
C33_Original ==
  /\ [](Cardinality(MoveTimers) <= 1)
  /\ [][op' = "move_timer" => (~moves.answered /\ MoveTimers' = {})]_vars

\* C19: while signals of a burst are unanswered exactly one move timer is
\* armed, due 100 ms after the last signal; a signal itself requests nothing;
\* the timer fires 100 ms after the last signal of the burst, its callback
\* makes one non-forced request (the save timer is re-armed for the full
\* delay, nothing is dispatched in that step) and leaves no move timer, so
\* the burst is answered once; a save timer dispatches at most once.
C19_MoveCoalescing ==
  /\ [](/\ Cardinality(MoveTimers) <= 1
        /\ \A t \in MoveTimers : t.id = moveTimer /\ t.left = MoveDelay - sinceMove
        /\ ~moves.answered <=> MoveTimers # {}
        /\ sinceMove < MoveDelay => ~moves.answered)
  /\ [][/\ op' \in {"move", "resize"} =>
             /\ sent' = 0
             /\ burst' = Pending
             /\ SaveTimers' = SaveTimers
             /\ saveTimeout' = saveTimeout
        /\ op' = "move_timer" =>
             /\ sinceMove = MoveDelay
             /\ ~moves.answered
             /\ MoveTimers' = {}
             /\ sent' = 0
             /\ sinceReq' = 0
             /\ burst' = Min(Pending + 1, MaxBurst)
             /\ SaveTimers' = {[id |-> saveTimeout', kind |-> "save", left |-> SaveDelay]}
        /\ op' = "timer" => sent' <= 1
       ]_vars

\* a burst of two signals, the second 50 ms after the first, has just been
\* answered by its one request
C19_Witness ==
  /\ op = "move_timer"
  /\ moves = [n |-> 2, answered |-> TRUE]
  /\ MoveTimers = {}
  /\ Cardinality(SaveTimers) = 1
  /\ sinceReq = 0
  /\ noteId = "n1"

\* ------------------------------------------------------ colour properties
\* C20 as stated: a click on a swatch sets the background to the swatch's
\* colour, leaves no save timer armed and dispatches exactly one forced
\* invocation that carries the new colour.
C20_Original ==
  [][op' = "color" =>
       /\ bgColor' = arg'.color
       /\ SaveTimers' = {} /\ saveTimeout' = 0
       /\ sent' = 1 /\ last'.via = "forced" /\ last'.color = arg'.color]_vars

\* C20: a click on a swatch sets the background to the swatch's colour and
\* leaves no save timer armed; when a note id is bound it dispatches exactly
\* one forced invocation, which carries the new colour, and none otherwise.
C20_ColorClick ==
  [][op' = "color" =>
       /\ bgColor' = arg'.color
       /\ SaveTimers' = {} /\ saveTimeout' = 0
       /\ IF quill /\ noteId # ""
            THEN sent' = 1 /\ last'.via = "forced" /\ last'.color = arg'.color
            ELSE sent' = 0]_vars

\* the second swatch is clicked 150 ms after a request that armed the timer
C20_Witness ==
  /\ op = "color" /\ arg.color = "c2"
  /\ bgColor = "c2"
  /\ sent = 1 /\ last.via = "forced" /\ last.color = "c2"
  /\ SaveTimers = {} /\ saveTimeout = 0
  /\ sinceReq > 0 /\ sinceReq < SaveDelay

\* C32: a set_color event dispatches nothing and leaves the timers, the
\* pending invocations, the document and the zoom as they are; on a mounted
\* window the background is then a colour of the palette or the one it was,
\* before the mount it is unchanged; an invocation of any later step
\* carries the background of that step.
C32_SetColor ==
  [][/\ op' = "set_color" =>
          /\ sent' = 0 /\ inflight' = inflight
          /\ timers' = timers /\ saveTimeout' = saveTimeout
          /\ doc' = doc /\ zoom' = zoom /\ selection' = selection
          /\ IF quill
               THEN bgColor' \in {Palette[i] : i \in 1..Len(Palette)} \cup {bgColor}
               ELSE bgColor' = bgColor
     /\ (sent' > 0 /\ bgColor' # "") => last'.color = bgColor'
    ]_vars

\* the event changed the background while a save timer was armed and an
\* invocation was pending
C32_Witness ==
  /\ op = "set_color"
  /\ noteId = "n1"
  /\ bgColor = "c2"
  /\ SaveTimers # {} /\ saveTimeout # 0
  /\ inflight = 1

\* ---------------------------------------------------- closing properties
\* C21: close_window is invoked only in the step in which the forced save
\* of closeNote has completed without error: the click itself when the save
\* dispatched nothing, or the fulfilment of the invocation the call awaits;
\* when that invocation is rejected closeNote ends rejected, and a rejected
\* call never invokes close_window.
C21_CloseAfterSave ==
  [][/\ (closeRun # "closing" /\ closeRun' = "closing") =>
          \/ op' = "close" /\ sent' = 0 /\ closeRun \in {"idle", "rejected"}
          \/ op' = "resolve" /\ closeRun = "saving"
     /\ op' = "reject" => (closeRun = "saving" /\ closeRun' = "rejected")
     /\ closeRun = "rejected" => closeRun' \in {"rejected", "saving"}
     /\ (closeRun = "saving" /\ closeRun' # "saving") => op' \in {"resolve", "reject"}
    ]_vars

\* the gateway has just rejected the invocation that closeNote awaited
C21_Witness ==
  /\ op = "reject"
  /\ closeRun = "rejected"
  /\ noteId = "n1"

\* ------------------------------------------------- overlapping invocations
\* C22: a forced save made while an invocation is pending leaves that
\* invocation pending and dispatches one more, which carries the whole
\* snapshot of that moment (note id, encoded contents, colour, zoom); a
\* pending invocation ends only when the gateway settles it.
C22_ForcedOverlaps ==
  [][/\ (op' \in ForcedOps /\ inflight > 0) =>
          /\ inflight' = inflight + 1
          /\ sent' = 1
          /\ last'.via = "forced"
          /\ last'.noteId = noteId' /\ noteId' # ""
          /\ last'.contents = serializeContents([quill |-> quill', doc |-> doc'])
          /\ last'.color = getNoteColor([bgColor |-> bgColor'])
          /\ last'.zoom = getZoomLevel([zoom |-> zoom'])
     /\ inflight' < inflight => (op' = "settle" /\ inflight' = inflight - 1)
    ]_vars

\* a blur while an earlier invocation is still pending
C22_Witness ==
  /\ op = "blur"
  /\ inflight = 2
  /\ sent = 1
  /\ last.via = "forced"

\* C23 as stated: a call of save_contents(true) dispatches an invocation in
\* the call, its caller resumes only when the gateway has settled that
\* invocation, and no save timer is armed after the call.
C23_Original ==
  [][op' \in {"close", "blur"} =>
       /\ sent' = 1
       /\ SaveTimers' = {} /\ saveTimeout' = 0
       /\ op' = "close" => closeRun' = "saving"]_vars

\* C23: a call of save_contents(true) leaves no save timer armed; when the
\* editor is constructed and a note id is bound it dispatches one invocation
\* within the call, and closeNote, which awaits the call, goes on only when
\* the gateway has settled that invocation, ending rejected when the gateway
\* rejects; otherwise it dispatches nothing and its caller goes on at once.
C23_ForcedSave ==
  [][/\ op' \in {"close", "blur"} =>
          /\ SaveTimers' = {} /\ saveTimeout' = 0
          /\ IF quill /\ noteId # ""
               THEN /\ sent' = 1 /\ inflight' = inflight + 1 /\ last'.via = "forced"
                    /\ op' = "close" => closeRun' = "saving"
               ELSE /\ sent' = 0 /\ inflight' = inflight
                    /\ op' = "close" => closeRun' = "closing"
     /\ (closeRun = "saving" /\ closeRun' = "saving") => inflight' >= 1
     /\ (closeRun = "saving" /\ closeRun' # "saving") =>
          /\ op' \in {"resolve", "reject"}
          /\ inflight' = inflight - 1
          /\ closeRun' = IF op' = "resolve" THEN "closing" ELSE "rejected"
    ]_vars

\* closeNote waits for the invocation of its forced save, which cancelled
\* the timer armed 150 ms earlier
C23_Witness ==
  /\ op = "close"
  /\ closeRun = "saving"
  /\ sent = 1 /\ last.via = "forced"
  /\ SaveTimers = {} /\ saveTimeout = 0
  /\ sinceReq > 0 /\ sinceReq < SaveDelay

\* ----------------------------------------------- external update properties
\* C24: the suppression flag is false in every state between two handlers
\* (apply_external_contents runs within one), so a local edit arms the save
\* timer.
C24_Original ==
  /\ [](~applyingExternalUpdate)
  /\ [][(op' = "edit" /\ quill) => SaveTimers' # {}]_vars

\* C25: an external update applied to a constructed editor sends nothing and
\* leaves the save timers as they are, and still runs the geometry
\* reaction: past the threshold a run starts exactly as for a local edit,
\* up to the threshold nothing is asked of the window.
C25_ExternalGrowth ==
  [][(op' = "external" /\ quill) =>
       /\ sent' = 0
       /\ SaveTimers' = SaveTimers /\ saveTimeout' = saveTimeout
       /\ IF Overflow(editorBox') > RESIZE_THRESHOLD_PX
            THEN /\ winCall'.kind = "scaleFactor"
                 /\ grows' = Append(grows, NewRun([editorBox |-> editorBox'],
                                                   Overflow(editorBox')))
            ELSE winCall' = NoWinCall /\ grows' = grows
    ]_vars

\* an external update replaced the document by content 3 px too tall: a run
\* asks for the scale factor and no save timer is armed
C25_Witness ==
  /\ op = "external"
  /\ doc = DocA
  /\ Overflow(editorBox) = RESIZE_THRESHOLD_PX + 1
  /\ Len(grows) = 1 /\ grows[1].pc = "scaleFactor"
  /\ grows[1].overflow = RESIZE_THRESHOLD_PX + 1
  /\ winCall.kind = "scaleFactor"
  /\ SaveTimers = {} /\ ~applyingExternalUpdate

\* C28: when the window carries out the setSize of a run, the size it takes
\* is derived from the size it has at that moment: the width stays and the
\* height grows by the run's overflow.
C28_Original ==
  [][op' = "setSize" =>
       \E i \in 1..Len(grows) :
         /\ grows[i].pc = "setSize"
         /\ grows' = Remove(grows, i)
         /\ appWindow'.width = appWindow.width
         /\ appWindow'.height = appWindow.height + grows[i].overflow * appWindow.factor
    ]_vars

\* C29: a run during which the user did not resize the window never makes
\* the window taller than the content it measured, however the runs
\* interleave.
C29_Original ==
  [][op' = "setSize" =>
       \A i \in 1..Len(grows) :
         (grows[i].pc = "setSize" /\ ~grows[i].manual /\ grows' = Remove(grows, i)) =>
           appWindow'.height <= grows[i].needed * appWindow.factor
    ]_vars

\* a number greater than zero and finite
FinitePositive(z) == z > 0 /\ z \notin {NaN, Undefined, PositiveInfinity}

C27_NotConstructed ==
  [][(op' = "external" /\ ~quill) =>
       /\ ~quill'
       /\ doc' = doc /\ bgColor' = bgColor /\ zoom' = zoom
       /\ applyingExternalUpdate' = applyingExternalUpdate
       /\ timers' = timers /\ saveTimeout' = saveTimeout
       /\ sent' = 0 /\ inflight' = inflight
    ]_vars

\* an update with a color, a zoom of 1.2 and a document arrived before the
\* mount
C27_Witness ==
  /\ op = "external"
  /\ ~quill
  /\ arg.color = "c2" /\ arg.zoom = 12 * Tenth
  /\ arg.contents = JSONStringify(DocA)
  /\ bgColor = "" /\ zoom = 0 /\ doc = BlankDoc

\* ------------------------------------------------------- fit_text properties
C30_Restores == (minHeight = FitContent) ~> (minHeight = FixedMinHeight)

C30_Resize ==
  [][/\ op' = "frame" =>
          /\ winCall'.kind = "setSize"
          /\ winCall'.width = toLogical(appWindow.width, appWindow.factor)
          /\ winCall'.height = 2 * editorBox.clientHeight
          /\ editorBox.clientHeight = editorBox.scrollHeight
     /\ op' \in {"fit_text", "fitScaleFactor", "fitOuterSize", "fitReject", "frame",
                  "fitSetSize"} =>
          sent' = 0 /\ inflight' = inflight
    ]_vars

\* C30: a relaxed minimum height is eventually followed by the fixed one,
\* also when a query of the window fails; the resize of a fit_text run asks
\* for the window's width and the height of the content, and no step of a
\* run invokes the gateway.
C30_Original == C30_Restores /\ C30_Resize

\* ------------------------------------------------- rejected invocations
\* C31 as stated: a save timer that fires dispatches exactly one invocation
\* and empties the slot; the settling of an invocation, fulfilled or
\* rejected, dispatches nothing and arms nothing.
C31_Original ==
  [][/\ op' = "timer" =>
          /\ sent' = 1 /\ last'.via = "timer" /\ inflight' = inflight + 1
          /\ saveTimeout' = 0 /\ SaveTimers' = {}
     /\ op' \in {"resolve", "reject"} =>
          /\ sent' = 0 /\ inflight' = inflight - 1
          /\ timers' = timers /\ saveTimeout' = saveTimeout
    ]_vars

\* C31: a save timer that fires empties the slot at once and, when a note
\* id is bound, dispatches exactly one invocation (none otherwise); the
\* settling of an invocation, fulfilled or rejected, dispatches nothing and
\* arms nothing, invocations are dispatched only by a timer that fires or a
\* blur, and a save timer is armed only by an edit.
C31_TimerFires ==
  [][/\ op' = "timer" =>
          /\ saveTimeout' = 0 /\ SaveTimers' = {}
          /\ IF noteId # ""
               THEN sent' = 1 /\ last'.via = "timer" /\ inflight' = inflight + 1
               ELSE sent' = 0 /\ inflight' = inflight
     /\ op' \in {"resolve", "reject"} =>
          /\ sent' = 0 /\ inflight' = inflight - 1
          /\ timers' = timers /\ saveTimeout' = saveTimeout
     /\ sent' > 0 => op' \in {"timer", "blur"}
     /\ {t.id : t \in SaveTimers'} \ {t.id : t \in SaveTimers} # {} => op' = "edit"
    ]_vars

\* the one invocation dispatched since the last edit, by the timer, was
\* rejected: nothing is pending and no timer is armed
C31_Witness ==
  /\ op = "reject"
  /\ noteId = "n1"
  /\ after = "edit" /\ editCalls = 1
  /\ inflight = 0
  /\ SaveTimers = {} /\ saveTimeout = 0

\* --------------------------------------------------------------- lost edits
\* the last change of the document was a local edit and the last invocation
\* dispatched, if any, does not carry the editor's content
Unsaved ==
  /\ quill /\ noteId # ""
  /\ track.mutation = "local"
  /\ ~(track.dispatched /\ track.contents = serializeContents(Cur))

C34_Quiescence == [](SaveTimers = {} /\ inflight = 0 => ~Unsaved)

C34_Eventually ==
  (<>[](op \notin {"edit", "external", "blur"})) => (Unsaved ~> ~Unsaved)

\* C34: with the editor constructed and a note id bound, an unsaved local
\* edit is followed by an invocation carrying the editor's content once the
\* edits, updates and blurs stop, and whenever no timer is armed and no
\* invocation is pending the last invocation dispatched carries the
\* editor's content unless the last change was an external update.
C34_Original == C34_Quiescence /\ C34_Eventually

\* C35 as stated: an external update leaves the save timers and the slot as
\* they are and dispatches nothing, and a save timer that fires after an
\* external update dispatches one invocation carrying the editor's content.
C35_Original ==
  [][/\ op' = "external" =>
          (timers' = timers /\ saveTimeout' = saveTimeout /\ sent' = 0)
     /\ (op' = "timer" /\ track.mutation = "external") =>
          /\ sent' = 1
          /\ doc' = doc
          /\ last'.contents = serializeContents([quill |-> quill', doc |-> doc'])
    ]_vars

\* C35: an external update leaves the save timers and the slot as they are
\* and dispatches nothing; a save timer that fires after an external update
\* dispatches, when a note id is bound, one invocation carrying the
\* editor's content, which is the one the update left, and nothing
\* otherwise.
C35_TimerSurvives ==
  [][/\ op' = "external" =>
          (timers' = timers /\ saveTimeout' = saveTimeout /\ sent' = 0)
     /\ (op' = "timer" /\ track.mutation = "external") =>
          /\ doc' = doc
          /\ IF noteId # ""
               THEN /\ sent' = 1
                    /\ last'.contents = serializeContents([quill |-> quill', doc |-> doc'])
               ELSE sent' = 0
    ]_vars

\* the timer armed by a local edit fired after an external update had put
\* the image document into the editor, and dispatched that document
C35_Witness ==
  /\ op = "timer"
  /\ track.mutation = "external"
  /\ noteId = "n1"
  /\ doc = DocImage
  /\ sent = 1 /\ last.via = "timer" /\ last.contents = JSONStringify(DocImage)

\* -------------------------------------------------------------- focus mark
\* C36: whenever no run of the focus listener waits, the window is marked
\* focused, and its title bar hovered, exactly if the last of the signals
\* focus and blur was focus.
C36_Original ==
  (quill /\ focusing.waiting = 0 /\ focusing.signal # "none") =>
    /\ focused <=> focusing.signal = "focus"
    /\ titlebarHovered <=> focusing.signal = "focus"

\* ----------------------------------------------------------- notes manager
\* C37: while a call of runNoteAction for a note is in flight (its command or
\* its list refresh), busyNoteId is that note.
C37_Original == \A a \in manager.runs : manager.busyNoteId = a.noteId

\* C38: once no list_saved_notes request is in flight, the displayed list is
\* the response to the request issued last among those that were fulfilled:
\* no older response has overwritten a newer one.
C38_Original == manager.lists = {} => manager.notes = manager.newest
=============================================================================
